---------------------------- MODULE Spec2Model ----------------------------
(***************************************************************************)
(* A model of the discovery pipeline of the TRR source scraper             *)
(* (tools/trr-source-scraper): the search executor with its cache, the     *)
(* two-tier orchestrator search_technique_sources, the relevance scorer    *)
(* compute_relevance_score with the threshold filter of main, and the      *)
(* three-pass deduplicate_results; and of the phases of a project of the   *)
(* TRR research assistant (tools/trr-research-assistant).                  *)
(*                                                                         *)
(* Python strings are TLA+ strings; the string functions of the code       *)
(* (find, in, split, strip, lower, re.search with the code's patterns,     *)
(* urlparse, difflib's SequenceMatcher.ratio) are computed character by    *)
(* character.  Scores are integer hundredths (0.30 is 30).  Python's None  *)
(* returned by the extraction helpers is the empty string: every caller    *)
(* tests the value only for truth, and no pattern group can be empty.      *)
(***************************************************************************)
EXTENDS Integers, Sequences, FiniteSets, TLC

VARIABLES
    \* ---- deduplicate_results, run pass by pass (SpecDedup)
    dPc,            \* position: "start", "pass1", "pass2", "pass3", "done"
    dRound,         \* 1: first call, 2: the call on the first call's output
    dResults,       \* the argument `results`: a sequence of [name, items]
    removed_urls,   \* the set removed_urls of the running call
    dAfter1,        \* removed_urls as it was at the end of Pass 1
    dAfter2,        \* removed_urls as it was at the end of Pass 2
    dOut1,          \* what the first call returned
    dOut2           \* what the second call returned

dedupVars == <<dPc, dRound, dResults, removed_urls, dAfter1, dAfter2, dOut1, dOut2>>

VARIABLES
    \* ---- compute_relevance_score and the boost of main on one candidate
    \* (SpecScore)
    sPc,            \* position: "start", "scored", "boosted"
    sIn,            \* the arguments: result, technique_id, technique_name,
                    \* mitre_ref_domains, trusted_sources
    sScore          \* r['relevance_score']: -1 until assigned

scoreVars == <<sPc, sIn, sScore>>

VARIABLES
    \* ---- DuckDuckGoScraper and the cache store (SpecSearch, SpecPipeline)
    use_cache,      \* self.use_cache
    DDGS_AVAILABLE, \* whether the ddgs package could be imported
    cache,          \* the cache store: key -> [value, stored_at]
    now,            \* the clock, in units of 1/UnitsPerDay day
    lastCall        \* history: the last call of search, <<>> before the first:
                    \* its arguments, what the outside world did (world), its
                    \* outcome (raised, results), its events, and the value
                    \* stored for its query less than a day before (fresh)

searchVars == <<use_cache, DDGS_AVAILABLE, cache, now, lastCall>>

VARIABLES
    \* ---- one run of main: search_technique_sources, scoring and filtering,
    \* deduplicate_results (SpecPipeline)
    pPc,            \* position: "search", "category", "searched", "scored",
                    \* "done", "aborted"
    args,           \* the arguments of the run
    catIdx,         \* the category the loop of search_technique_sources is at
    callIdx,        \* the number of that category's queries already executed
    category_results,   \* category_results of the category being searched
    global_seen_urls,   \* global_seen_urls
    pResults,       \* results / search_results: a sequence of [name, items]
    pScored,        \* history: search_results with every score assigned,
                    \* before the threshold filter
    filtered_count, \* filtered_count
    pLog            \* history: every call of scraper.search of the run

pipeVars == <<pPc, args, catIdx, callIdx, category_results, global_seen_urls,
              pResults, pScored, filtered_count, pLog>>

VARIABLES
    \* ---- one RateLimiter and the calls of its wait() (SpecRate)
    wPc,            \* position: "idle" between calls, "sleeping" in time.sleep
    delay,          \* self.delay, in clock ticks
    last_request_time,  \* self.last_request_time
    clock,          \* time.time(), in ticks
    wake,           \* the tick at which the running time.sleep may end
    returns         \* history: the times of the last two returns of wait()

rateVars == <<wPc, delay, last_request_time, clock, wake, returns>>

VARIABLES
    \* ---- one project of the research assistant (SpecResearch): what
    \* state.json holds of it between two commands
    rPc,            \* "off", or "open" once create_project has written the project
    phases,         \* state.phases: the status of each phase of PHASE_ORDER
    basic_questions,  \* state.basic_questions, the fields the gate reads
    scoping,        \* state.scoping: scope_statement, exclusions, constraints
    procedures      \* state.procedures

researchVars == <<rPc, phases, basic_questions, scoping, procedures>>

vars == <<dedupVars, scoreVars, searchVars, pipeVars, rateVars, researchVars>>

(***************************************************************************)
(* The parts of the state at rest: each specification runs one part and     *)
(* leaves the others at rest                                                *)
(***************************************************************************)
\* The cache store with no entry
EmptyStore == [key \in {} |-> <<>>]

\* deduplicate_results is not running
DedupIdle ==
    /\ dPc = "off"
    /\ dRound = 0
    /\ dResults = <<>>
    /\ removed_urls = {}
    /\ dAfter1 = {}
    /\ dAfter2 = {}
    /\ dOut1 = <<>>
    /\ dOut2 = <<>>

\* No candidate is being scored
ScoreIdle ==
    /\ sPc = "off"
    /\ sIn = <<>>
    /\ sScore = -1

\* No search has been made and the cache store is empty
SearchIdle ==
    /\ use_cache = TRUE
    /\ DDGS_AVAILABLE = TRUE
    /\ cache = EmptyStore
    /\ now = 0
    /\ lastCall = <<>>

\* main is not running
PipeIdle ==
    /\ pPc = "off"
    /\ args = <<>>
    /\ catIdx = 0
    /\ callIdx = 0
    /\ category_results = <<>>
    /\ global_seen_urls = {}
    /\ pResults = <<>>
    /\ pScored = <<>>
    /\ filtered_count = 0
    /\ pLog = <<>>

RateIdle ==
    /\ wPc = "off"
    /\ delay = 0
    /\ last_request_time = 0
    /\ clock = 0
    /\ wake = 0
    /\ returns = <<>>

\* No project of the research assistant exists
ResearchIdle ==
    /\ rPc = "off"
    /\ phases = <<>>
    /\ basic_questions = <<>>
    /\ scoping = <<>>
    /\ procedures = <<>>

(***************************************************************************)
(* Python's str operations                                                 *)
(***************************************************************************)
Min(a, b) == IF a <= b THEN a ELSE b
Max(a, b) == IF a >= b THEN a ELSE b

Range(s) == {s[i] : i \in DOMAIN s}

\* s[i:] with a 1-based i
From(s, i) == SubSeq(s, i, Len(s))

\* s.startswith(sub, i-1)
StartsWithAt(s, i, sub) ==
    /\ i >= 1
    /\ i + Len(sub) - 1 <= Len(s)
    /\ SubSeq(s, i, i + Len(sub) - 1) = sub

\* The 1-based positions at which sub occurs in s
Occurrences(s, sub) == {i \in 1..(Len(s) - Len(sub) + 1) : StartsWithAt(s, i, sub)}

SetMin(S) == CHOOSE x \in S : \A y \in S : x <= y
SetMax(S) == CHOOSE x \in S : \A y \in S : x >= y

\* s.find(sub) + 1: the first position of sub in s, 0 when there is none
Find(s, sub) == IF Occurrences(s, sub) = {} THEN 0 ELSE SetMin(Occurrences(s, sub))

\* s.rfind(sub) + 1
RFind(s, sub) == IF Occurrences(s, sub) = {} THEN 0 ELSE SetMax(Occurrences(s, sub))

\* sub in s
Contains(s, sub) == sub = "" \/ Find(s, sub) # 0

\* s.split(sep) for a one-character sep: the pieces of s from position start
\* on, i being the position looked at
RECURSIVE SplitFrom(_, _, _, _)
SplitFrom(s, sep, start, i) ==
    IF i > Len(s) THEN <<SubSeq(s, start, Len(s))>>
    ELSE IF SubSeq(s, i, i) = sep
    THEN <<SubSeq(s, start, i - 1)>> \o SplitFrom(s, sep, i + 1, i + 1)
    ELSE SplitFrom(s, sep, start, i + 1)

Split(s, sep) == SplitFrom(s, sep, 1, 1)

\* sep.join(parts)
RECURSIVE Join(_, _)
Join(parts, sep) ==
    IF parts = <<>> THEN ""
    ELSE IF Len(parts) = 1 THEN parts[1]
    ELSE parts[1] \o sep \o Join(Tail(parts), sep)

UpperLetters == <<"A","B","C","D","E","F","G","H","I","J","K","L","M",
                  "N","O","P","Q","R","S","T","U","V","W","X","Y","Z">>
LowerLetters == <<"a","b","c","d","e","f","g","h","i","j","k","l","m",
                  "n","o","p","q","r","s","t","u","v","w","x","y","z">>
Digits == {"0","1","2","3","4","5","6","7","8","9"}
\* The whitespace of the modelled alphabet
Whitespace == {" ", "\t"}

LowerChar(c) ==
    IF \E i \in 1..26 : UpperLetters[i] = c
    THEN LowerLetters[CHOOSE i \in 1..26 : UpperLetters[i] = c]
    ELSE c

\* s.lower()
RECURSIVE Lower(_)
Lower(s) == IF s = "" THEN "" ELSE LowerChar(Head(s)) \o Lower(Tail(s))

\* The characters of s that are in the set keep
RECURSIVE KeepChars(_, _)
KeepChars(s, keep) ==
    IF s = "" THEN ""
    ELSE (IF Head(s) \in keep THEN Head(s) ELSE "") \o KeepChars(Tail(s), keep)

\* s.lstrip(chars), s.rstrip(chars), s.strip()
RECURSIVE LStrip(_, _)
LStrip(s, chars) ==
    IF s # "" /\ Head(s) \in chars THEN LStrip(Tail(s), chars) ELSE s

RECURSIVE RStrip(_, _)
RStrip(s, chars) ==
    IF s # "" /\ SubSeq(s, Len(s), Len(s)) \in chars
    THEN RStrip(SubSeq(s, 1, Len(s) - 1), chars) ELSE s

Strip(s) == LStrip(RStrip(s, Whitespace), Whitespace)

\* The longest prefix of s made of characters of the set chars
RECURSIVE PrefixOf(_, _)
PrefixOf(s, chars) ==
    IF s # "" /\ Head(s) \in chars THEN Head(s) \o PrefixOf(Tail(s), chars) ELSE ""

\* The part of s before its first "/", and whether a "/" follows it
Segment(s) == IF Find(s, "/") = 0 THEN s ELSE SubSeq(s, 1, Find(s, "/") - 1)
AfterSegment(s) == IF Find(s, "/") = 0 THEN "" ELSE From(s, Find(s, "/") + 1)
HasSlash(s) == Find(s, "/") # 0

(***************************************************************************)
(* urllib.parse.urlparse, as far as the code uses it: the scheme, the      *)
(* network location, the path and the query of a URL                       *)
(***************************************************************************)
SchemeChars == Range(LowerLetters) \cup Range(UpperLetters) \cup Digits \cup {"+", "-", "."}
Letters == Range(LowerLetters) \cup Range(UpperLetters)

\* The position of the first character of s that is in chars, Len(s) + 1 when
\* there is none
RECURSIVE FirstOf(_, _, _)
FirstOf(s, chars, i) ==
    IF i > Len(s) \/ SubSeq(s, i, i) \in chars THEN i ELSE FirstOf(s, chars, i + 1)

urlparse(url) ==
    LET colon == Find(url, ":")
        hasScheme == /\ colon > 1
                     /\ SubSeq(url, 1, 1) \in Letters
                     /\ PrefixOf(SubSeq(url, 1, colon - 1), SchemeChars)
                            = SubSeq(url, 1, colon - 1)
        scheme == IF hasScheme THEN Lower(SubSeq(url, 1, colon - 1)) ELSE ""
        rest == IF hasScheme THEN From(url, colon + 1) ELSE url
        hasNetloc == StartsWithAt(rest, 1, "//")
        stop == FirstOf(rest, {"/", "?", "#"}, 3)
        netloc == IF hasNetloc THEN SubSeq(rest, 3, stop - 1) ELSE ""
        tail == IF hasNetloc THEN From(rest, stop) ELSE rest
        noFragment == Split(tail, "#")[1]
        mark == Find(noFragment, "?")
    IN  [scheme |-> scheme,
         netloc |-> netloc,
         path |-> IF mark = 0 THEN noFragment ELSE SubSeq(noFragment, 1, mark - 1),
         query |-> IF mark = 0 THEN "" ELSE From(noFragment, mark + 1)]

\* Extract the domain from a URL
extract_domain(url) == Lower(urlparse(url).netloc)

\* Check if a URL is valid
is_valid_url(url) ==
    urlparse(url).scheme \in {"http", "https"} /\ urlparse(url).netloc # ""

\* True if the URL points to a generic landing/index page
is_generic_landing_page(url) ==
    LET parsed == urlparse(url)
        path == RStrip(parsed.path, {"/"})
        generic_paths == {"", "/en-us", "/en-us/docs", "/en-us/previous-versions",
                          "/html/archives.html", "/docs", "/blog", "/resources"}
        segments == {i \in DOMAIN Split(path, "/") : Split(path, "/")[i] # ""}
    IN  \/ Lower(path) \in generic_paths
        \/ Cardinality(segments) <= 1 /\ parsed.query = ""

(***************************************************************************)
(* The relevance scorer (utils/helpers.py) and the boost of main           *)
(***************************************************************************)
\* A short name taken after the first colon instead of the last
AfterFirstColon(technique_name) ==
    IF Contains(technique_name, ":")
    THEN Strip(From(technique_name, Find(technique_name, ":") + 1))
    ELSE technique_name

\* technique_name.split(":")[-1].strip() if ":" in technique_name
\* else technique_name
ShortName(technique_name) ==
    IF Contains(technique_name, ":")
    THEN Strip(Split(technique_name, ":")[Len(Split(technique_name, ":"))])
    ELSE technique_name

\* The same, lowercased, as compute_relevance_score derives it
ScorerShortName(technique_name) ==
    IF Contains(technique_name, ":")
    THEN Lower(Strip(Split(technique_name, ":")[Len(Split(technique_name, ":"))]))
    ELSE Lower(technique_name)

\* The trust-tier points: the first category of trusted_sources that lists
\* the domain decides (the loop breaks there)
RECURSIVE TrustPoints(_, _)
TrustPoints(domain, trusted_sources) ==
    IF trusted_sources = <<>> THEN 0
    ELSE IF domain \in Range(trusted_sources[1].domains)
    THEN (CASE trusted_sources[1].priority = "high" -> 15
            [] trusted_sources[1].priority = "medium" -> 5
            [] OTHER -> 0)
    ELSE TrustPoints(domain, Tail(trusted_sources))

\* The points of the signals that hold, before the cap
SignalPoints(result, technique_id, technique_name, mitre_ref_domains, trusted_sources) ==
    LET short_name == ScorerShortName(technique_name)
        tid_lower == Lower(technique_id)
        title == Lower(result.title)
        desc == Lower(result.description)
        url == Lower(result.url)
        domain == Lower(result.domain)
        tid_in_path == IF Contains(tid_lower, ".")
                       THEN Join(Split(tid_lower, "."), "/")
                       ELSE tid_lower
    IN    (IF Contains(title, tid_lower) THEN 30 ELSE 0)
        + (IF short_name # "" /\ Contains(title, short_name) THEN 25 ELSE 0)
        + (IF Contains(desc, tid_lower) THEN 15 ELSE 0)
        + (IF short_name # "" /\ Contains(desc, short_name) THEN 10 ELSE 0)
        + (IF Contains(url, tid_lower) \/ Contains(url, tid_in_path) THEN 10 ELSE 0)
        + (IF mitre_ref_domains # {} /\ domain \in mitre_ref_domains THEN 10 ELSE 0)
        + (IF trusted_sources # <<>> /\ domain # ""
           THEN TrustPoints(domain, trusted_sources) ELSE 0)

\* The score of a scorer that leaves out the cap
UncappedScore(result, technique_id, technique_name, mitre_ref_domains, trusted_sources) ==
    SignalPoints(result, technique_id, technique_name, mitre_ref_domains, trusted_sources)

\* return min(score, 1.0)
compute_relevance_score(result, technique_id, technique_name, mitre_ref_domains, trusted_sources) ==
    Min(SignalPoints(result, technique_id, technique_name, mitre_ref_domains,
                     trusted_sources), 100)

\* r.get('_scoped_query')
IsScoped(r) == "_scoped_query" \in DOMAIN r /\ r._scoped_query

\* main: the boost of a result of a category-scoped query
BoostedScore(r, score) == IF IsScoped(r) THEN Min(score + 20, 100) ELSE score

(***************************************************************************)
(* SpecScore: one candidate scored, then boosted                           *)
(***************************************************************************)
Subjects ==
    { [technique_id |-> "T1003.006", technique_name |-> "OS Credential Dumping: DCSync"],
      [technique_id |-> "T1053.002", technique_name |-> "Scheduled Task/Job:  At "],
      [technique_id |-> "T1003", technique_name |-> "OS Credential Dumping"],
      [technique_id |-> "T1003.006",
       technique_name |-> "OS Credential Dumping: Active Directory :\tDCSync "] }

ScoreTitles == {"T1003.006 DCSync Attack", "dcsync explained", "OS Credential Dumping (t1003)",
                "Looking at T1053.002", ""}
ScoreDescriptions == {"", "How T1003.006 (dcsync) and os credential dumping work"}
ScoreUrls == {"https://attack.mitre.org/techniques/T1003/006/",
              "https://ADSecurity.org/?p=1729&t=t1003.006",
              "https://blog.example.com/posts/dcsync"}

RefDomainSets == {{}, {"adsecurity.org"}, {"attack.mitre.org", "blog.example.com"}}

TrustConfigs ==
    { <<>>,
      << [name |-> "security_research", priority |-> "high",
          domains |-> <<"adsecurity.org", "attack.mitre.org">>] >>,
      << [name |-> "conferences", priority |-> "medium", domains |-> <<"adsecurity.org">>],
         [name |-> "security_research", priority |-> "high",
          domains |-> <<"adsecurity.org", "blog.example.com">>] >>,
      << [name |-> "github", priority |-> "low", domains |-> <<"blog.example.com">>],
         [name |-> "academic", priority |-> "medium", domains |-> <<"attack.mitre.org">>] >> }

ScoreInit ==
    /\ sPc = "start"
    /\ sScore = -1
    /\ \E subject \in Subjects, title \in ScoreTitles, description \in ScoreDescriptions,
          url \in ScoreUrls, refs \in RefDomainSets, trusted \in TrustConfigs,
          scoped \in BOOLEAN :
          sIn = [ result |-> IF scoped
                             THEN [title |-> title, description |-> description, url |-> url,
                                   domain |-> extract_domain(url), _search_tier |-> "tier2",
                                   _scoped_query |-> TRUE]
                             ELSE [title |-> title, description |-> description, url |-> url,
                                   domain |-> extract_domain(url), _search_tier |-> "tier2"],
                  technique_id |-> subject.technique_id,
                  technique_name |-> subject.technique_name,
                  mitre_ref_domains |-> refs,
                  trusted_sources |-> trusted ]
    /\ DedupIdle /\ SearchIdle /\ PipeIdle /\ RateIdle /\ ResearchIdle

\* r['relevance_score'] = compute_relevance_score(...)
ScoreCandidate ==
    /\ sPc = "start"
    /\ sScore' = compute_relevance_score(sIn.result, sIn.technique_id, sIn.technique_name,
                                         sIn.mitre_ref_domains, sIn.trusted_sources)
    /\ sPc' = "scored"
    /\ UNCHANGED sIn
    /\ UNCHANGED <<dedupVars, searchVars, pipeVars, rateVars, researchVars>>

\* if r.get('_scoped_query'): r['relevance_score'] = min(... + 0.20, 1.0)
BoostCandidate ==
    /\ sPc = "scored"
    /\ sScore' = BoostedScore(sIn.result, sScore)
    /\ sPc' = "boosted"
    /\ UNCHANGED sIn
    /\ UNCHANGED <<dedupVars, searchVars, pipeVars, rateVars, researchVars>>

(***************************************************************************)
(* The search executor: DuckDuckGoScraper (scrapers/duckduckgo.py),         *)
(* clean_text (utils/helpers.py) and the cache store                        *)
(***************************************************************************)
\* text.split(): the maximal runs of non-whitespace characters of s
RECURSIVE Words(_, _)
Words(s, word) ==
    IF s = "" THEN (IF word = "" THEN <<>> ELSE <<word>>)
    ELSE IF Head(s) \in Whitespace
         THEN (IF word = "" THEN <<>> ELSE <<word>>) \o Words(Tail(s), "")
         ELSE Words(Tail(s), word \o Head(s))

\* The characters of the modelled alphabet for which isprintable() is false
NonPrintable == Whitespace \ {" "}

\* ''.join(char for char in s if char not in drop)
RECURSIVE DropChars(_, _)
DropChars(s, drop) ==
    IF s = "" THEN ""
    ELSE (IF Head(s) \in drop THEN "" ELSE Head(s)) \o DropChars(Tail(s), drop)

\* clean_text, the truncation of the cleaned text and the final strip
Truncate(text, max_length) ==
    Strip(IF max_length # 0 /\ Len(text) > max_length
          THEN SubSeq(text, 1, max_length - 3) \o "..."
          ELSE text)

\* clean_text(text, max_length); max_length = 0 stands for None.  Of the
\* modelled alphabet only the whitespace other than the blank is not printable.
clean_text(text, max_length) ==
    Truncate(DropChars(Join(Words(text, ""), " "), NonPrintable), max_length)

\* d.get(key, default)
Get(d, key, default) == IF key \in DOMAIN d THEN d[key] ELSE default

\* urllib.parse.unquote on the escapes of the modelled alphabet
Escapes == [e \in {"%3A", "%2F", "%3F", "%3D", "%26"} |->
               CASE e = "%3A" -> ":" [] e = "%2F" -> "/" [] e = "%3F" -> "?"
                 [] e = "%3D" -> "=" [] e = "%26" -> "&"]

RECURSIVE unquote(_)
unquote(s) ==
    IF s = "" THEN ""
    ELSE IF Len(s) >= 3 /\ SubSeq(s, 1, 3) \in DOMAIN Escapes
         THEN Escapes[SubSeq(s, 1, 3)] \o unquote(From(s, 4))
         ELSE Head(s) \o unquote(Tail(s))

\* The first group of the pattern uddg=([^&]+) when it matches s at p, else ""
UddgGroupAt(s, p) ==
    IF StartsWithAt(s, p, "uddg=")
    THEN PrefixOf(From(s, p + 5), {SubSeq(s, i, i) : i \in 1..Len(s)} \ {"&"})
    ELSE ""

\* _extract_real_url: "" stands for None.  The uddg parameter is read as the
\* pattern uddg=([^&]+) reads it.
_extract_real_url(duckduckgo_url) ==
    IF duckduckgo_url = "" THEN ""
    ELSE IF StartsWithAt(duckduckgo_url, 1, "http") THEN duckduckgo_url
    ELSE IF \E p \in 1..Len(duckduckgo_url) : UddgGroupAt(duckduckgo_url, p) # ""
    THEN unquote(UddgGroupAt(duckduckgo_url,
                             SetMin({p \in 1..Len(duckduckgo_url) :
                                        UddgGroupAt(duckduckgo_url, p) # ""})))
    ELSE ""

\* _search_via_ddgs, the loop body: nothing for an item without a valid URL,
\* else the record appended
DdgsRecord(r, url) ==
    IF url = "" \/ ~is_valid_url(url) THEN <<>>
    ELSE << [title |-> clean_text(Get(r, "title", "Untitled"), 0),
             url |-> url,
             description |-> clean_text(Get(r, "body", ""), 300),
             display_url |-> extract_domain(url),
             domain |-> extract_domain(url)] >>

\* _search_via_ddgs, the loop over the items of ddgs.text
RECURSIVE DdgsRecords(_)
DdgsRecords(items) ==
    IF items = <<>> THEN <<>>
    ELSE DdgsRecord(Head(items),
                    IF Get(Head(items), "href", "") # "" THEN Head(items).href
                    ELSE Get(Head(items), "url", ""))
         \o DdgsRecords(Tail(items))

\* _parse_single_result, once the real URL is known: <<>> stands for None
ResultOfDiv(result_div, url) ==
    IF url = "" THEN <<>>
    ELSE << [title |-> clean_text(result_div.link.text, 0),
             url |-> url,
             description |-> IF "snippet" \in DOMAIN result_div
                             THEN clean_text(result_div.snippet, 0) ELSE "",
             display_url |-> IF "display" \in DOMAIN result_div
                             THEN clean_text(result_div.display, 0) ELSE "",
             domain |-> extract_domain(url)] >>

\* _parse_single_result: <<>> stands for None.  A result div is the record of
\* what its lookups find: link (the result__a anchor: href, text), snippet and
\* display (the texts of result__snippet and result__url), each possibly absent.
_parse_single_result(result_div) ==
    IF "link" \notin DOMAIN result_div THEN <<>>
    ELSE ResultOfDiv(result_div, _extract_real_url(Get(result_div.link, "href", "")))

\* _parse_html_results, the test of one parsed result before it is appended
Accepted(result) ==
    IF result # <<>> /\ is_valid_url(result[1].url) THEN result ELSE <<>>

\* _parse_html_results, the loop over the result divs of a parsed page
RECURSIVE ParseDivs(_, _, _)
ParseDivs(divs, max_results, results) ==
    IF divs = <<>> \/ Len(results) >= max_results THEN results
    ELSE ParseDivs(Tail(divs), max_results,
                   results \o Accepted(_parse_single_result(Head(divs))))

\* What the outside world does during one call of search: env.ddgs_ok, whether
\* DDGS().text answers, with env.items; env.get_ok, whether the request to
\* html.duckduckgo.com succeeds; env.soup_ok, whether BeautifulSoup(html,
\* 'lxml') builds a tree (it raises FeatureNotFound without the lxml parser),
\* with env.divs.  A call yields [raised, results, calls]: whether an exception
\* leaves it, what it returns, and the outbound calls it made.

\* The outbound calls of a callee after those of its caller
AfterCalls(calls, callee) == [callee EXCEPT !.calls = calls \o callee.calls]

\* _parse_html_results: BeautifulSoup is called outside any try
_parse_html_results(env, max_results) ==
    IF ~env.soup_ok THEN [raised |-> TRUE, results |-> <<>>, calls |-> <<>>]
    ELSE [raised |-> FALSE, results |-> ParseDivs(env.divs, max_results, <<>>),
          calls |-> <<>>]

\* _search_via_html: only requests.RequestException is caught
_search_via_html(env, max_results) ==
    IF ~env.get_ok THEN [raised |-> FALSE, results |-> <<>>, calls |-> <<"html">>]
    ELSE AfterCalls(<<"html">>, _parse_html_results(env, max_results))

\* _search_via_ddgs: any exception of the package leads to the HTML scraping
_search_via_ddgs(env, max_results) ==
    IF env.ddgs_ok
    THEN [raised |-> FALSE, results |-> DdgsRecords(env.items), calls |-> <<"ddgs">>]
    ELSE AfterCalls(<<"ddgs">>, _search_via_html(env, max_results))

\* The number of clock units in a day
UnitsPerDay == 2

\* _cache_key: "ddg_" and the MD5 digest of the query; the digest is modelled
\* by the query itself, distinct queries having distinct digests
_cache_key(query) == "ddg_" \o query

\* get_cached(key, ttl_days) at time t: [value, store], value <<>> for None,
\* <<v>> for a live entry; an expired entry is evicted by the read
get_cached(store, key, ttl_days, t) ==
    IF key \notin DOMAIN store THEN [value |-> <<>>, store |-> store]
    ELSE IF t - store[key].stored_at > ttl_days * UnitsPerDay
         THEN [value |-> <<>>,
               store |-> [k \in DOMAIN store \ {key} |-> store[k]]]
         ELSE [value |-> <<store[key].value>>, store |-> store]

\* set_cached(key, value) at time t
set_cached(store, key, value, t) ==
    [k \in DOMAIN store \cup {key} |->
        IF k = key THEN [value |-> value, stored_at |-> t] ELSE store[k]]

\* The cache check of a search that never looks into the cache
NoCacheCheck(useCache, store, query, t) == [value |-> <<>>, store |-> store]

\* search, the cache check: what get_cached answers when the cache is in use
CacheCheck(useCache, store, query, t) ==
    IF useCache THEN get_cached(store, _cache_key(query), 1, t)
    ELSE [value |-> <<>>, store |-> store]

\* A search that stores every result, the empty one too
StoreAlways(found, useCache, store, t, query) ==
    [raised |-> found.raised,
     results |-> found.results,
     events |-> <<"wait">> \o found.calls,
     store |-> IF ~found.raised /\ useCache
               THEN set_cached(store, _cache_key(query), found.results, t)
               ELSE store]

\* search after a cache miss, once the provider has answered: the result is
\* stored when the cache is in use and the result is not empty
SearchMiss(found, useCache, store, t, query) ==
    [raised |-> found.raised,
     results |-> found.results,
     events |-> <<"wait">> \o found.calls,
     store |-> IF ~found.raised /\ useCache /\ found.results # <<>>
               THEN set_cached(store, _cache_key(query), found.results, t)
               ELSE store]

\* search after the cache check
SearchChecked(cached, useCache, ddgs_available, t, query, max_results, env) ==
    IF cached.value # <<>>
    THEN [raised |-> FALSE, results |-> cached.value[1], events |-> <<>>,
          store |-> cached.store]
    ELSE SearchMiss(IF ddgs_available THEN _search_via_ddgs(env, max_results)
                    ELSE _search_via_html(env, max_results),
                    useCache, cached.store, t, query)

\* DuckDuckGoScraper.search(query, max_results) at time t: [raised, results,
\* events, store]; events lists rate_limiter.wait() and the outbound calls in
\* the order they happen
search(useCache, ddgs_available, store, t, query, max_results, env) ==
    SearchChecked(CacheCheck(useCache, store, query, t),
                  useCache, ddgs_available, t, query, max_results, env)

(***************************************************************************)
(* SpecSearch: calls of search on one scraper while time passes             *)
(***************************************************************************)
\* The items DDGS().text can yield
Raw ==
    [ A |-> [href |-> "https://a.io/p/x", title |-> " DCSync \t Attack ", body |-> "T1003.006  "],
      B |-> [url |-> "http://www.B.org/p/y", body |-> "about DCSync"],
      Bad |-> [href |-> "ftp://a.io/z", title |-> "listing", body |-> ""],
      None |-> [title |-> "no link"],
      NoHost |-> [href |-> "http://:80/x", title |-> "a port and no host", body |-> ""],
      C |-> [href |-> "https://c.dev/t/T1003/006", title |-> "T1003.006", body |-> ""],
      Home |-> [href |-> "https://a.io/", title |-> "DCSync home",
                body |-> "T1003.006 DCSync"] ]

\* The result divs of the pages html.duckduckgo.com can answer with
Div ==
    [ A |-> [link |-> [href |-> "//duckduckgo.com/l/?uddg=https%3A%2F%2Fa.io%2Fp%2Fx&rut=1",
                       text |-> "DCSync Attack"],
             snippet |-> " T1003.006", display |-> "a.io/p/x"],
      B |-> [link |-> [href |-> "http://www.B.org/p/y", text |-> "Untitled"]],
      Bad |-> [link |-> [href |-> "/l/?uddg=ftp%3A%2F%2Fa.io%2Fz", text |-> "listing"]],
      None |-> [snippet |-> "an advertisement"],
      NoHost |-> [link |-> [href |-> "http://:80/x", text |-> "a port and no host"]] ]

\* The behaviours of the outside world during a call asking for max_results:
\* the package honours max_results, a page has as many divs as it has
Envs(max_results) ==
    {[ddgs_ok |-> TRUE, items |-> items, get_ok |-> TRUE, soup_ok |-> TRUE, divs |-> <<>>] :
        items \in {l \in {<<>>, <<Raw.A>>, <<Raw.B, Raw.A>>, <<Raw.Bad, Raw.None>>,
                            <<Raw.NoHost>>} :
                      Len(l) <= max_results}}
    \cup {[ddgs_ok |-> FALSE, items |-> <<>>, get_ok |-> FALSE, soup_ok |-> TRUE,
           divs |-> <<>>],
          [ddgs_ok |-> FALSE, items |-> <<>>, get_ok |-> TRUE, soup_ok |-> FALSE,
           divs |-> <<>>],
          [ddgs_ok |-> FALSE, items |-> <<>>, get_ok |-> TRUE, soup_ok |-> TRUE,
           divs |-> <<Div.NoHost>>],
          [ddgs_ok |-> FALSE, items |-> <<>>, get_ok |-> TRUE, soup_ok |-> TRUE,
           divs |-> <<Div.Bad, Div.A, Div.None, Div.B>>]}

SearchQueries == {"\"DCSync\" detection", "\"DCSync\" site:a.io"}

MaxResults == 2
MaxTime == 3

SearchInit ==
    /\ use_cache \in BOOLEAN
    /\ DDGS_AVAILABLE \in BOOLEAN
    /\ cache = EmptyStore
    /\ now = 0
    /\ lastCall = <<>>
    /\ DedupIdle /\ ScoreIdle /\ PipeIdle /\ RateIdle /\ ResearchIdle

\* The record of a call of search made with the cache store as it is
CallRecord(query, max_results, env, call) ==
    [query |-> query, max_results |-> max_results,
     world |-> [ddgs_ok |-> env.ddgs_ok, get_ok |-> env.get_ok, soup_ok |-> env.soup_ok],
     raised |-> call.raised,
     results |-> IF call.raised THEN <<>> ELSE call.results,
     events |-> call.events,
     fresh |-> IF _cache_key(query) \in DOMAIN cache
                  /\ now - cache[_cache_key(query)].stored_at < UnitsPerDay
               THEN <<cache[_cache_key(query)].value>> ELSE <<>>]

\* The effect of a call of search on the scraper and the cache store
Called(query, max_results, env, call) ==
    /\ cache' = call.store
    /\ lastCall' = CallRecord(query, max_results, env, call)
    /\ UNCHANGED <<use_cache, DDGS_AVAILABLE, now>>

\* One call scraper.search(query, max_results), from entry to return or raise
Search ==
    /\ \E query \in SearchQueries, max_results \in 1..MaxResults :
         \E env \in Envs(max_results) :
           Called(query, max_results, env,
                  search(use_cache, DDGS_AVAILABLE, cache, now, query, max_results, env))
    /\ UNCHANGED <<dedupVars, scoreVars, pipeVars, rateVars, researchVars>>

\* Time passes
Tick ==
    /\ now < MaxTime
    /\ now' = now + 1
    /\ UNCHANGED <<use_cache, DDGS_AVAILABLE, cache, lastCall>>
    /\ UNCHANGED <<dedupVars, scoreVars, pipeVars, rateVars, researchVars>>

(***************************************************************************)
(* RateLimiter (utils/helpers.py).  SpecRate: calls of wait() on one        *)
(* limiter while the clock runs.  The clock never goes backwards; it ticks  *)
(* between calls and during time.sleep, which sleeps at least as long as    *)
(* asked.                                                                   *)
(***************************************************************************)
\* The longest delay of a limiter and the last tick of the clock
MaxDelay == 3
MaxClock == 8

\* A wait() that never sleeps
NoSleep(elapsed, d) == 0

\* The argument of time.sleep in wait(), 0 when wait() does not sleep
SleepFor(elapsed, d) == IF elapsed < d THEN d - elapsed ELSE 0

\* RateLimiter(delay): last_request_time = 0
RateInit ==
    /\ wPc = "idle"
    /\ delay \in 1..MaxDelay
    /\ last_request_time = 0
    /\ clock \in 0..MaxDelay
    /\ wake = 0
    /\ returns = <<>>
    /\ DedupIdle /\ ScoreIdle /\ SearchIdle /\ PipeIdle /\ ResearchIdle

\* The return of wait() at the time t of its last statement
Returned(t) ==
    /\ last_request_time' = t
    /\ returns' = IF returns = <<>> THEN <<t>> ELSE <<returns[Len(returns)], t>>
    /\ wPc' = "idle"

\* wait() is called: elapsed is computed; either time.sleep starts, or the
\* time is recorded and wait() returns
WaitCalled ==
    /\ wPc = "idle"
    /\ IF SleepFor(clock - last_request_time, delay) > 0
       THEN /\ wPc' = "sleeping"
            /\ wake' = clock + SleepFor(clock - last_request_time, delay)
            /\ UNCHANGED <<last_request_time, returns>>
       ELSE /\ Returned(clock)
            /\ UNCHANGED wake
    /\ UNCHANGED <<delay, clock>>
    /\ UNCHANGED <<dedupVars, scoreVars, searchVars, pipeVars, researchVars>>

\* time.sleep ends, the time is recorded and wait() returns
WaitSlept ==
    /\ wPc = "sleeping"
    /\ clock >= wake
    /\ Returned(clock)
    /\ UNCHANGED <<delay, clock, wake>>
    /\ UNCHANGED <<dedupVars, scoreVars, searchVars, pipeVars, researchVars>>

\* The clock ticks
ClockTick ==
    /\ wPc \in {"idle", "sleeping"}
    /\ clock < MaxClock
    /\ clock' = clock + 1
    /\ UNCHANGED <<wPc, delay, last_request_time, wake, returns>>
    /\ UNCHANGED <<dedupVars, scoreVars, searchVars, pipeVars, researchVars>>

(***************************************************************************)
(* deduplicate_results: the helpers (utils/helpers.py)                      *)
(***************************************************************************)
\* Preferred GitHub orgs: earlier entries have higher priority
_PREFERRED_GITHUB_ORGS ==
    <<"redcanaryco", "sigmahq", "mitre-attack", "mitre",
      "elastic", "splunk", "microsoft", "neo23x0">>

\* The group (.+) of  HOST/[^/]+/[^/]+/(?:blob|tree)/[^/]+/(.+)  matched with
\* HOST at position p of s, "" when the pattern does not match there
BlobGroupAt(s, p, host) ==
    LET segs == Split(From(s, p + Len(host)), "/")
    IN  IF /\ Len(segs) >= 5
           /\ segs[1] # "" /\ segs[2] # ""
           /\ segs[3] \in {"blob", "tree"}
           /\ segs[4] # ""
        THEN Join(SubSeq(segs, 5, Len(segs)), "/")
        ELSE ""

\* The group (.+) of  HOST/[^/]+/[^/]+/[^/]+/(.+)  matched at position p
RawGroupAt(s, p, host) ==
    LET segs == Split(From(s, p + Len(host)), "/")
    IN  IF /\ Len(segs) >= 4
           /\ segs[1] # "" /\ segs[2] # "" /\ segs[3] # ""
        THEN Join(SubSeq(segs, 4, Len(segs)), "/")
        ELSE ""

\* The group ([^/]+) of  github\.com/([^/]+)/  matched at position p
OrgGroupAt(s, p, host) ==
    LET segs == Split(From(s, p + Len(host)), "/")
    IN  IF Len(segs) >= 2 /\ segs[1] # "" THEN segs[1] ELSE ""

_github_org_priority(org) ==
    IF \E i \in DOMAIN _PREFERRED_GITHUB_ORGS : _PREFERRED_GITHUB_ORGS[i] = org
    THEN (CHOOSE i \in DOMAIN _PREFERRED_GITHUB_ORGS : _PREFERRED_GITHUB_ORGS[i] = org) - 1
    ELSE Len(_PREFERRED_GITHUB_ORGS)

\* The group (\d+\.\d+) of  arxiv\.org/(?:abs|pdf|html)/(\d+\.\d+)  at p
ArxivGroupAt(s, p, host) ==
    LET rest == From(s, p + Len(host))
        kind == Segment(rest)
        tail == AfterSegment(rest)
        d1 == PrefixOf(tail, Digits)
        more == From(tail, Len(d1) + 1)
        d2 == PrefixOf(From(more, 2), Digits)
    IN  IF /\ kind \in {"abs", "pdf", "html"} /\ HasSlash(rest)
           /\ d1 # "" /\ StartsWithAt(more, 1, ".") /\ d2 # ""
        THEN d1 \o "." \o d2
        ELSE ""

\* The group (\d+) of
\*   ieeexplore\.ieee\.org/(?:document|iel\d+/[^/]+/[^/]+)/(\d+)  at p
IeeeGroupAt(s, p, host) ==
    LET segs == Split(From(s, p + Len(host)), "/")
        isIel(x) == /\ StartsWithAt(x, 1, "iel")
                    /\ Len(x) > 3
                    /\ PrefixOf(From(x, 4), Digits) = From(x, 4)
    IN  IF Len(segs) >= 2 /\ segs[1] = "document"
        THEN PrefixOf(segs[2], Digits)
        ELSE IF /\ Len(segs) >= 4 /\ isIel(segs[1])
                /\ segs[2] # "" /\ segs[3] # ""
        THEN PrefixOf(segs[4], Digits)
        ELSE ""

\* The literal text each pattern of the code starts with
HeadOf(pattern) ==
    CASE pattern = "blob" -> "github.com/"
      [] pattern = "raw" -> "raw.githubusercontent.com/"
      [] pattern = "org" -> "github.com/"
      [] pattern = "arxiv" -> "arxiv.org/"
      [] pattern = "ieee" -> "ieeexplore.ieee.org/"

\* The group of a pattern matched with its head at position p of s, "" when
\* the pattern does not match there
GroupAt(pattern, s, p) ==
    CASE pattern = "blob" -> BlobGroupAt(s, p, HeadOf(pattern))
      [] pattern = "raw" -> RawGroupAt(s, p, HeadOf(pattern))
      [] pattern = "org" -> OrgGroupAt(s, p, HeadOf(pattern))
      [] pattern = "arxiv" -> ArxivGroupAt(s, p, HeadOf(pattern))
      [] pattern = "ieee" -> IeeeGroupAt(s, p, HeadOf(pattern))

\* re.search: the group of the leftmost position at which the pattern matches
FirstGroup(s, pattern) ==
    LET hits == {p \in Occurrences(s, HeadOf(pattern)) : GroupAt(pattern, s, p) # ""}
    IN  IF hits = {} THEN "" ELSE GroupAt(pattern, s, SetMin(hits))

\* Extract the file path portion from a GitHub URL, ignoring org/repo
_github_file_key(url) ==
    LET clean_url == Split(Split(url, "#")[1], "?")[1]
        blob == FirstGroup(clean_url, "blob")
        raw == FirstGroup(clean_url, "raw")
    IN  IF blob # "" THEN blob ELSE raw

_github_org(url) == Lower(FirstGroup(url, "org"))

_arxiv_id(url) == FirstGroup(url, "arxiv")

_ieee_id(url) == FirstGroup(url, "ieee")

\* re.sub(r'[^a-z0-9\s]', '', title.lower()).strip()
_normalize_title(title) ==
    Strip(KeepChars(Lower(title), Range(LowerLetters) \cup Digits \cup Whitespace))

(***************************************************************************)
(* difflib.SequenceMatcher(None, a, b).ratio(): no junk, and no popular    *)
(* elements below 200 characters.  Positions are 1-based and inclusive.    *)
(***************************************************************************)
\* The length of the common run of a from i and b from j
RECURSIVE RunLen(_, _, _, _, _, _)
RunLen(a, i, ahi, b, j, bhi) ==
    IF i <= ahi /\ j <= bhi /\ SubSeq(a, i, i) = SubSeq(b, j, j)
    THEN 1 + RunLen(a, i + 1, ahi, b, j + 1, bhi)
    ELSE 0

\* The longest matching block of a[alo..ahi] and b[blo..bhi]: of the longest,
\* the one that starts earliest in a, and of those the earliest in b
find_longest_match(a, alo, ahi, b, blo, bhi) ==
    LET run == [p \in (alo..ahi) \X (blo..bhi) |-> RunLen(a, p[1], ahi, b, p[2], bhi)]
        size == IF DOMAIN run = {} THEN 0 ELSE SetMax({run[p] : p \in DOMAIN run})
        i == SetMin({p[1] : p \in {q \in DOMAIN run : run[q] = size}})
        j == SetMin({p[2] : p \in {q \in DOMAIN run : run[q] = size /\ q[1] = i}})
    IN  IF size = 0 THEN [i |-> alo, j |-> blo, size |-> 0]
        ELSE [i |-> i, j |-> j, size |-> size]

\* The total size of get_matching_blocks()
RECURSIVE MatchingSize(_, _, _, _, _, _)
MatchingSize(a, alo, ahi, b, blo, bhi) ==
    IF alo > ahi \/ blo > bhi THEN 0
    ELSE LET m == find_longest_match(a, alo, ahi, b, blo, bhi)
         IN  IF m.size = 0 THEN 0
             ELSE m.size
                  + MatchingSize(a, alo, m.i - 1, b, blo, m.j - 1)
                  + MatchingSize(a, m.i + m.size, ahi, b, m.j + m.size, bhi)

\* ratio() > 0.90, ratio being 2.0 * matches / (len(a) + len(b)), 1.0 for two
\* empty strings
RatioAbove90(a, b) ==
    IF Len(a) + Len(b) = 0 THEN TRUE
    ELSE 20 * MatchingSize(a, 1, Len(a), b, 1, Len(b)) > 9 * (Len(a) + Len(b))

(***************************************************************************)
(* deduplicate_results: flatten, the three passes, rebuild                  *)
(***************************************************************************)
\* r.get('relevance_score', 0)
ScoreOf(r) == IF "relevance_score" \in DOMAIN r THEN r.relevance_score ELSE 0

\* all_items: every (category, r), categories in the mapping's order
RECURSIVE Flatten(_)
Flatten(results) ==
    IF results = <<>> THEN <<>>
    ELSE [i \in DOMAIN results[1].items |->
             [category |-> results[1].name, r |-> results[1].items[i]]]
         \o Flatten(Tail(results))

\* Pass 1, GitHub fork dedup, from item i on: github_file_map maps a file key
\* to the result kept for it
RECURSIVE Pass1From(_, _, _, _)
Pass1From(all_items, i, github_file_map, removed) ==
    IF i > Len(all_items) THEN removed
    ELSE
    LET r == all_items[i].r
        url == r.url
        fkey == _github_file_key(url)
    IN  IF fkey = "" THEN Pass1From(all_items, i + 1, github_file_map, removed)
        ELSE IF fkey \in DOMAIN github_file_map
        THEN LET existing_r == github_file_map[fkey]
                 existing_org == _github_org(existing_r.url)
                 new_org == _github_org(url)
             IN  IF _github_org_priority(new_org) < _github_org_priority(existing_org)
                 THEN Pass1From(all_items, i + 1, (fkey :> r) @@ github_file_map,
                                removed \cup {existing_r.url})
                 ELSE Pass1From(all_items, i + 1, github_file_map, removed \cup {url})
        ELSE Pass1From(all_items, i + 1, (fkey :> r) @@ github_file_map, removed)

Pass1(all_items) == Pass1From(all_items, 1, <<>>, {})

\* Pass 2, academic paper dedup, from item i on
RECURSIVE Pass2From(_, _, _, _, _)
Pass2From(all_items, i, arxiv_map, ieee_map, removed) ==
    IF i > Len(all_items) THEN removed
    ELSE
    LET r == all_items[i].r
        url == r.url
        aid == _arxiv_id(url)
        iid == _ieee_id(url)
    IN  IF url \in removed THEN Pass2From(all_items, i + 1, arxiv_map, ieee_map, removed)
        ELSE IF aid # ""
        THEN IF aid \in DOMAIN arxiv_map
             THEN LET existing_r == arxiv_map[aid]
                  IN  IF ScoreOf(r) > ScoreOf(existing_r)
                      THEN Pass2From(all_items, i + 1, (aid :> r) @@ arxiv_map, ieee_map,
                                     removed \cup {existing_r.url})
                      ELSE Pass2From(all_items, i + 1, arxiv_map, ieee_map,
                                     removed \cup {url})
             ELSE Pass2From(all_items, i + 1, (aid :> r) @@ arxiv_map, ieee_map, removed)
        ELSE IF iid # ""
        THEN IF iid \in DOMAIN ieee_map
             THEN LET existing_r == ieee_map[iid]
                  IN  IF ScoreOf(r) > ScoreOf(existing_r)
                      THEN Pass2From(all_items, i + 1, arxiv_map, (iid :> r) @@ ieee_map,
                                     removed \cup {existing_r.url})
                      ELSE Pass2From(all_items, i + 1, arxiv_map, ieee_map,
                                     removed \cup {url})
             ELSE Pass2From(all_items, i + 1, arxiv_map, (iid :> r) @@ ieee_map, removed)
        ELSE Pass2From(all_items, i + 1, arxiv_map, ieee_map, removed)

\* A Pass 2 that removes nothing
Pass2Skipped(all_items, removed) == removed

Pass2(all_items, removed) == Pass2From(all_items, 1, <<>>, <<>>, removed)

\* The first entry of seen_titles whose ratio with title is above 0.90, 0 when
\* the inner loop ends without a break
FirstSimilar(title, seen_titles) ==
    LET hits == {k \in DOMAIN seen_titles : RatioAbove90(title, seen_titles[k].title)}
    IN  IF hits = {} THEN 0 ELSE SetMin(hits)

\* Pass 3, title dedup, from item i on: seen_titles is the list of
\* (normalized_title, url, score)
RECURSIVE Pass3From(_, _, _, _)
Pass3From(all_items, i, seen_titles, removed) ==
    IF i > Len(all_items) THEN removed
    ELSE
    LET r == all_items[i].r
        url == r.url
        title == _normalize_title(r.title)
        k == FirstSimilar(title, seen_titles)
    IN  IF url \in removed THEN Pass3From(all_items, i + 1, seen_titles, removed)
        ELSE IF Len(title) < 10 THEN Pass3From(all_items, i + 1, seen_titles, removed)
        ELSE IF k # 0
        THEN IF ScoreOf(r) > seen_titles[k].score
             THEN Pass3From(all_items, i + 1, seen_titles,
                            removed \cup {seen_titles[k].url})
             ELSE Pass3From(all_items, i + 1, seen_titles, removed \cup {url})
        ELSE Pass3From(all_items, i + 1,
                       Append(seen_titles,
                              [title |-> title, url |-> url, score |-> ScoreOf(r)]),
                       removed)

Pass3(all_items, removed) == Pass3From(all_items, 1, <<>>, removed)

\* The comparisons of Pass 3 that end in a break (the lines its verbose mode
\* prints), from item i on: the newcomer, the seen_titles entry it matched and
\* removed_urls as the comparison leaves it
RECURSIVE Pass3Log(_, _, _, _)
Pass3Log(all_items, i, seen_titles, removed) ==
    IF i > Len(all_items) THEN <<>>
    ELSE
    LET r == all_items[i].r
        url == r.url
        title == _normalize_title(r.title)
        k == FirstSimilar(title, seen_titles)
    IN  IF url \in removed THEN Pass3Log(all_items, i + 1, seen_titles, removed)
        ELSE IF Len(title) < 10 THEN Pass3Log(all_items, i + 1, seen_titles, removed)
        ELSE IF k # 0
        THEN IF ScoreOf(r) > seen_titles[k].score
             THEN <<[url |-> url, score |-> ScoreOf(r), existing |-> seen_titles[k],
                     removed |-> removed \cup {seen_titles[k].url}]>>
                  \o Pass3Log(all_items, i + 1, seen_titles,
                              removed \cup {seen_titles[k].url})
             ELSE <<[url |-> url, score |-> ScoreOf(r), existing |-> seen_titles[k],
                     removed |-> removed \cup {url}]>>
                  \o Pass3Log(all_items, i + 1, seen_titles, removed \cup {url})
        ELSE Pass3Log(all_items, i + 1,
                      Append(seen_titles,
                             [title |-> title, url |-> url, score |-> ScoreOf(r)]),
                      removed)

\* A rebuild that leaves every candidate in
KeepAll(cat_results, removed) == cat_results

\* [r for r in cat_results if r.get('url', '') not in removed_urls]
RECURSIVE KeepNotRemoved(_, _)
KeepNotRemoved(cat_results, removed) ==
    IF cat_results = <<>> THEN <<>>
    ELSE (IF cat_results[1].url \in removed THEN <<>> ELSE <<cat_results[1]>>)
         \o KeepNotRemoved(Tail(cat_results), removed)

Rebuild(results, removed) ==
    [c \in DOMAIN results |->
        [name |-> results[c].name, items |-> KeepNotRemoved(results[c].items, removed)]]

deduplicate_results(results) ==
    LET all_items == Flatten(results)
    IN  Rebuild(results, Pass3(all_items, Pass2(all_items, Pass1(all_items))))

(***************************************************************************)
(* The candidates deduplicate_results is run on                            *)
(***************************************************************************)
Cand(url, title, score) == [url |-> url, title |-> title, relevance_score |-> score]

DedupPool ==
    << Cand("https://github.com/orgA/repo/blob/main/atomics/T1003.yaml", "T1003.yaml", 40),
       Cand("https://github.com/redcanaryco/art/blob/main/atomics/T1003.yaml", "T1003.yaml", 40),
       Cand("https://raw.githubusercontent.com/redcanaryco/art/main/atomics/T1003.yaml",
            "T1003.yaml", 40),
       Cand("https://github.com/SigmaHQ/fork/tree/dev/atomics/T1003.yaml#L10",
            "T1003.yaml", 55),
       Cand("https://arxiv.org/abs/2101.00001", "arXiv abs", 40),
       Cand("https://arxiv.org/pdf/2101.00001v2", "arXiv pdf", 60),
       Cand("https://arxiv.org/html/2101.00001#S1", "arXiv html", 40),
       Cand("https://ieeexplore.ieee.org/document/9152781",
            "Detecting Credential Dumping", 45),
       Cand("https://ieeexplore.ieee.org/iel7/6287639/8948470/9152781.pdf", "IEEE pdf", 45),
       Cand("https://blog.example.com/posts/dcsync", "DCSync Attack Deep Dive", 30),
       Cand("https://medium.com/@sec/dcsync", "DCSync Attack - Deep Dive!!", 50),
       Cand("https://mirror.example.org/dcsync", "DCSync Attack Deep Dive", 50),
       Cand("https://notes.example.net/dcsync", "DCSync Attack: Deep Dive", 20) >>

\* The most candidates in one input mapping
MaxItems == 3

RECURSIVE SeqsUpTo(_, _)
SeqsUpTo(S, n) ==
    IF n = 0 THEN {<<>>}
    ELSE SeqsUpTo(S, n - 1) \cup {Append(q, x) : q \in {t \in SeqsUpTo(S, n - 1) : Len(t) = n - 1}, x \in S}

\* The input mappings: up to MaxItems candidates of the pool with distinct
\* URLs (what search_technique_sources hands on), in any order, the first k in
\* one category and the rest in the other
DedupInputs ==
    UNION { { << [name |-> "security_research", items |-> SubSeq(q, 1, k)],
                 [name |-> "github", items |-> SubSeq(q, k + 1, Len(q))] >> :
              k \in 0..Len(q) } :
            q \in {t \in SeqsUpTo(Range(DedupPool), MaxItems) :
                      \A i, j \in DOMAIN t : i # j => t[i].url # t[j].url} }

(***************************************************************************)
(* SpecDedup: deduplicate_results on an input mapping, pass by pass, and    *)
(* then once more on what it returned                                       *)
(***************************************************************************)
DedupInit ==
    /\ dPc = "start"
    /\ dRound = 1
    /\ dResults \in DedupInputs
    /\ removed_urls = {}
    /\ dAfter1 = {}
    /\ dAfter2 = {}
    /\ dOut1 = <<>>
    /\ dOut2 = <<>>
    /\ ScoreIdle /\ SearchIdle /\ PipeIdle /\ RateIdle /\ ResearchIdle

DedupPass1 ==
    /\ dPc = "start"
    /\ removed_urls' = Pass1(Flatten(dResults))
    /\ dAfter1' = removed_urls'
    /\ dPc' = "pass1"
    /\ UNCHANGED <<dRound, dResults, dAfter2, dOut1, dOut2>>
    /\ UNCHANGED <<scoreVars, searchVars, pipeVars, rateVars, researchVars>>

DedupPass2 ==
    /\ dPc = "pass1"
    /\ removed_urls' = Pass2(Flatten(dResults), removed_urls)
    /\ dAfter2' = removed_urls'
    /\ dPc' = "pass2"
    /\ UNCHANGED <<dRound, dResults, dAfter1, dOut1, dOut2>>
    /\ UNCHANGED <<scoreVars, searchVars, pipeVars, rateVars, researchVars>>

DedupPass3 ==
    /\ dPc = "pass2"
    /\ removed_urls' = Pass3(Flatten(dResults), removed_urls)
    /\ dPc' = "pass3"
    /\ UNCHANGED <<dRound, dResults, dAfter1, dAfter2, dOut1, dOut2>>
    /\ UNCHANGED <<scoreVars, searchVars, pipeVars, rateVars, researchVars>>

DedupRebuild ==
    /\ dPc = "pass3"
    /\ dPc' = "done"
    /\ IF dRound = 1
       THEN dOut1' = Rebuild(dResults, removed_urls) /\ UNCHANGED dOut2
       ELSE dOut2' = Rebuild(dResults, removed_urls) /\ UNCHANGED dOut1
    /\ UNCHANGED <<dRound, dResults, removed_urls, dAfter1, dAfter2>>
    /\ UNCHANGED <<scoreVars, searchVars, pipeVars, rateVars, researchVars>>

\* deduplicate_results(deduplicate_results(R)): the second call
DedupAgain ==
    /\ dPc = "done"
    /\ dRound = 1
    /\ dRound' = 2
    /\ dResults' = dOut1
    /\ dPc' = "start"
    /\ removed_urls' = {}
    /\ dAfter1' = {}
    /\ dAfter2' = {}
    /\ UNCHANGED <<dOut1, dOut2>>
    /\ UNCHANGED <<scoreVars, searchVars, pipeVars, rateVars, researchVars>>

(***************************************************************************)
(* The orchestrator: _build_queries, search_with_site_filter and            *)
(* search_technique_sources (scrapers/duckduckgo.py), and the scoring and   *)
(* threshold filter of main (trr_scraper.py).  The categories mapping and   *)
(* config.trusted_sources are one sequence of [name, priority, domains] in  *)
(* the mapping's order.                                                     *)
(***************************************************************************)
Quoted(s) == "\"" \o s \o "\""

\* _build_queries, the category-specific queries
CategorySpecific(technique_id, short_name, category_name, extra) ==
    CASE category_name = "security_research" ->
           << Quoted(short_name) \o " attack analysis write-up" \o extra >>
      [] category_name = "microsoft_docs" ->
           << Quoted(short_name)
              \o " site:learn.microsoft.com OR site:techcommunity.microsoft.com" \o extra >>
      [] category_name = "conferences" ->
           << Quoted(short_name) \o " presentation talk defcon OR blackhat" \o extra >>
      [] category_name = "github" ->
           << Quoted(technique_id) \o " detection rule" \o extra >>
      [] category_name = "sigma_rules" ->
           << "site:github.com/SigmaHQ/sigma " \o Quoted(technique_id) >>
      [] category_name = "lolbas_gtfobins" ->
           << Quoted(short_name) \o " LOLBAS OR GTFOBins" \o extra >>
      [] category_name = "academic" ->
           << Quoted(short_name) \o " detection research paper" \o extra >>
      [] OTHER -> <<>>

\* _build_queries, the shared queries
Common(technique_id, short_name, extra) ==
    << Quoted(technique_id) \o " " \o Quoted(short_name) \o extra,
       Quoted(short_name) \o " detection" \o extra >>

\* A list with the shared queries ahead of the category-specific ones
SharedFirst(technique_id, technique_name, category_name, extra) ==
    Common(technique_id, ShortName(technique_name), extra)
    \o CategorySpecific(technique_id, ShortName(technique_name), category_name, extra)

_build_queries(technique_id, technique_name, category_name, extra) ==
    CategorySpecific(technique_id, ShortName(technique_name), category_name, extra)
    \o Common(technique_id, ShortName(technique_name), extra)

\* search_technique_sources: extra
Extra(extra_terms) == IF Strip(extra_terms) # "" THEN " " \o Strip(extra_terms) ELSE ""

\* search_technique_sources: the set mitre_ref_domains
RECURSIVE MitreRefDomains(_)
MitreRefDomains(mitre_refs) ==
    IF mitre_refs = <<>> THEN {}
    ELSE (IF Get(Head(mitre_refs), "url", "") # ""
             /\ extract_domain(Head(mitre_refs).url) # ""
          THEN {extract_domain(Head(mitre_refs).url)} ELSE {})
         \cup MitreRefDomains(Tail(mitre_refs))

\* [d for d in domains if d in tier1_set], and its complement
RECURSIVE Keep(_, _, _)
Keep(domains, S, inside) ==
    IF domains = <<>> THEN <<>>
    ELSE (IF (Head(domains) \in S) = inside THEN <<Head(domains)>> ELSE <<>>)
         \o Keep(Tail(domains), S, inside)

CatTier1(domains, tier1_domains) == Keep(domains, Range(tier1_domains), TRUE)

\* cat_tier2 after the loop over mitre_ref_domains; mrd_order is the order in
\* which the set is iterated
AppendEvery(cat_tier2, cat_tier1, mrd_order) == cat_tier2 \o mrd_order

RECURSIVE AppendNew(_, _, _)
AppendNew(cat_tier2, cat_tier1, mrd_order) ==
    IF mrd_order = <<>> THEN cat_tier2
    ELSE AppendNew(IF Head(mrd_order) \notin Range(cat_tier1)
                      /\ Head(mrd_order) \notin Range(cat_tier2)
                   THEN Append(cat_tier2, Head(mrd_order)) ELSE cat_tier2,
                   cat_tier1, Tail(mrd_order))

CatTier2(domains, tier1_domains, mrd_order) ==
    AppendNew(Keep(domains, Range(tier1_domains), FALSE),
              CatTier1(domains, tier1_domains), mrd_order)

\* The Tier 1 query of a domain
Tier1Query(technique_id, short_name, domain, extra) ==
    (IF Len(short_name) < 4
     THEN Quoted(short_name) \o " " \o technique_id \o " site:" \o domain
     ELSE Quoted(short_name) \o " site:" \o domain)
    \o extra

\* search_with_site_filter: full_query
RECURSIVE SiteFilter(_)
SiteFilter(sites) ==
    IF sites = <<>> THEN ""
    ELSE "site:" \o Head(sites)
         \o (IF Len(sites) = 1 THEN "" ELSE " OR " \o SiteFilter(Tail(sites)))

Unfiltered(query, sites) == query

FullQuery(query, sites) ==
    IF sites # <<>>
    THEN query \o " (" \o SiteFilter(SubSeq(sites, 1, Min(Len(sites), 5))) \o ")"
    ELSE query

\* search_with_site_filter: the results of search, each URL once
RECURSIVE FirstPerUrl(_, _)
FirstPerUrl(found, seen_urls) ==
    IF found = <<>> THEN <<>>
    ELSE IF Head(found).url \in seen_urls THEN FirstPerUrl(Tail(found), seen_urls)
    ELSE <<Head(found)>> \o FirstPerUrl(Tail(found), seen_urls \cup {Head(found).url})

\* The calls of scraper.search that search_technique_sources makes for one
\* category, in order.  Each is [tier, branch, query, sent, max_results, scoped,
\* batch]: query is the loop's query, sent the string handed to search, scoped
\* whether the results are marked _scoped_query, branch the place of the call
\* ("tier1"; "plain": the branch of an empty batch; "direct": search on a
\* query that has a site: scope; "filter": search_with_site_filter).
RECURSIVE Tier1Calls(_, _, _, _)
Tier1Calls(technique_id, short_name, cat_tier1, extra) ==
    IF cat_tier1 = <<>> THEN <<>>
    ELSE << [tier |-> "tier1", branch |-> "tier1",
             query |-> Tier1Query(technique_id, short_name, Head(cat_tier1), extra),
             sent |-> Tier1Query(technique_id, short_name, Head(cat_tier1), extra),
             max_results |-> 2, scoped |-> FALSE, batch |-> <<>>] >>
         \o Tier1Calls(technique_id, short_name, Tail(cat_tier1), extra)

\* queries[:3]
FirstThree(queries) == SubSeq(queries, 1, Min(Len(queries), 3))

\* The calls of the loop over queries[:3] for one batch
BatchCalls(queries, batch, max_per_category) ==
    [i \in DOMAIN queries |->
        IF batch = <<>>
        THEN [tier |-> "tier2", branch |-> "plain", query |-> queries[i],
              sent |-> queries[i], max_results |-> max_per_category,
              scoped |-> FALSE, batch |-> batch]
        ELSE IF Contains(queries[i], "site:")
        THEN [tier |-> "tier2", branch |-> "direct", query |-> queries[i],
              sent |-> queries[i], max_results |-> max_per_category,
              scoped |-> TRUE, batch |-> batch]
        ELSE [tier |-> "tier2", branch |-> "filter", query |-> queries[i],
              sent |-> FullQuery(queries[i], batch), max_results |-> max_per_category,
              scoped |-> FALSE, batch |-> batch]]

\* The loop over range(0, max(len(cat_tier2), 1), 5), from batch_start on
\* (0-based)
RECURSIVE Tier2Calls(_, _, _, _)
Tier2Calls(queries, cat_tier2, batch_start, max_per_category) ==
    IF batch_start >= Max(Len(cat_tier2), 1) THEN <<>>
    ELSE IF cat_tier2 = <<>> THEN BatchCalls(queries, <<>>, max_per_category)
    ELSE BatchCalls(queries,
                    SubSeq(cat_tier2, batch_start + 1,
                           Min(batch_start + 5, Len(cat_tier2))),
                    max_per_category)
         \o Tier2Calls(queries, cat_tier2, batch_start + 5, max_per_category)

CategoryCalls(a, category) ==
    Tier1Calls(a.technique_id, ShortName(a.technique_name),
               CatTier1(category.domains, a.tier1_domains), Extra(a.extra_terms))
    \o Tier2Calls(FirstThree(_build_queries(a.technique_id, a.technique_name,
                                            category.name, Extra(a.extra_terms))),
                  CatTier2(category.domains, a.tier1_domains, a.mrd_order),
                  0, a.max_per_category)

\* d[key] = value
With(d, key, value) ==
    [k \in DOMAIN d \cup {key} |-> IF k = key THEN value ELSE d[k]]

\* The marks a call puts on one of its results; producing_query is history,
\* the query of the call, and is read by no operation
Tagged(r, call) ==
    With(IF call.scoped
         THEN With(With(r, "_search_tier", call.tier), "_scoped_query", TRUE)
         ELSE With(r, "_search_tier", call.tier),
         "producing_query", call.query)

\* What a call adds to category_results, given what search returned
CallResults(call, found) ==
    [i \in DOMAIN (IF call.branch = "filter" THEN FirstPerUrl(found, {}) ELSE found) |->
        Tagged((IF call.branch = "filter" THEN FirstPerUrl(found, {}) ELSE found)[i], call)]

\* category_results.sort(key=lambda r: 0 if tier1 else 1): the sort is stable
RECURSIVE OfTier1(_, _)
OfTier1(rs, inside) ==
    IF rs = <<>> THEN <<>>
    ELSE (IF (Get(Head(rs), "_search_tier", "") = "tier1") = inside
          THEN <<Head(rs)>> ELSE <<>>)
         \o OfTier1(Tail(rs), inside)

Tier2First(rs) == OfTier1(rs, FALSE) \o OfTier1(rs, TRUE)

Tier1First(rs) == OfTier1(rs, TRUE) \o OfTier1(rs, FALSE)

\* The test of a loop that only remembers the URLs of the category at hand
SeenInCategory(url, seen, global_seen) == url \in seen

\* if url in seen or url in global_seen_urls
AlreadySeen(url, seen, global_seen) == url \in seen \/ url \in global_seen

\* The loop that fills unique_results: [seen, unique_results]
RECURSIVE UniqueFrom(_, _, _, _)
UniqueFrom(rs, seen, global_seen, unique_results) ==
    IF rs = <<>> THEN [seen |-> seen, unique_results |-> unique_results]
    ELSE IF AlreadySeen(Head(rs).url, seen, global_seen)
            \/ is_generic_landing_page(Head(rs).url)
    THEN UniqueFrom(Tail(rs), seen, global_seen, unique_results)
    ELSE UniqueFrom(Tail(rs), seen \cup {Head(rs).url}, global_seen,
                    Append(unique_results, Head(rs)))

\* main: the score of one result, boosted when it is marked _scoped_query
Scored(r, a) ==
    With(r, "relevance_score",
         BoostedScore(r, compute_relevance_score(r, a.technique_id, a.technique_name,
                                                 MitreRefDomains(a.mitre_refs),
                                                 a.categories)))

\* results.sort(key=relevance_score, reverse=True): stable, so a result goes
\* behind every earlier result with a score at least as high
RECURSIVE InsertByScore(_, _)
InsertByScore(sorted, r) ==
    IF sorted = <<>> THEN <<r>>
    ELSE IF ScoreOf(Head(sorted)) >= ScoreOf(r)
    THEN <<Head(sorted)>> \o InsertByScore(Tail(sorted), r)
    ELSE <<r>> \o sorted

RECURSIVE SortByScore(_, _)
SortByScore(rs, sorted) ==
    IF rs = <<>> THEN sorted
    ELSE SortByScore(Tail(rs), InsertByScore(sorted, Head(rs)))

\* The test of a filter that also drops a score equal to the threshold
PassesStrictly(r, min_score) == ScoreOf(r) > min_score

\* r.get('relevance_score', 0) >= min_score
Passes(r, min_score) == ScoreOf(r) >= min_score

RECURSIVE AboveThreshold(_, _)
AboveThreshold(rs, min_score) ==
    IF rs = <<>> THEN <<>>
    ELSE (IF Passes(Head(rs), min_score) THEN <<Head(rs)>> ELSE <<>>)
         \o AboveThreshold(Tail(rs), min_score)

\* main: every category scored and sorted
ScoredAndSorted(mapping, a) ==
    [c \in DOMAIN mapping |->
        [name |-> mapping[c].name,
         items |-> SortByScore([i \in DOMAIN mapping[c].items |->
                                   Scored(mapping[c].items[i], a)], <<>>)]]

\* main: every category filtered
Filtered(mapping, min_score) ==
    [c \in DOMAIN mapping |->
        [name |-> mapping[c].name,
         items |-> AboveThreshold(mapping[c].items, min_score)]]

\* sum(len(r) for r in search_results.values())
RECURSIVE Total(_)
Total(mapping) ==
    IF mapping = <<>> THEN 0 ELSE Len(Head(mapping).items) + Total(Tail(mapping))

(***************************************************************************)
(* SpecPipeline: one run of main without page enrichment (--no-enrich):     *)
(* search_technique_sources call by call of scraper.search, then the        *)
(* scoring and the threshold filter, then deduplicate_results               *)
(***************************************************************************)
\* The behaviours of the outside world during a call of the run: the package
\* answers with at most max_results items, or it fails and the request of the
\* HTML scraping fails, or it fails and the page cannot be parsed
PipeEnvs(max_results) ==
    {[ddgs_ok |-> TRUE, items |-> items, get_ok |-> TRUE, soup_ok |-> TRUE, divs |-> <<>>] :
        items \in {l \in {<<Raw.A>>, <<Raw.C>>, <<Raw.B, Raw.A>>, <<Raw.Home, Raw.C>>} :
                      Len(l) <= max_results}}
    \cup {[ddgs_ok |-> FALSE, items |-> <<>>, get_ok |-> FALSE, soup_ok |-> TRUE,
           divs |-> <<>>],
          [ddgs_ok |-> FALSE, items |-> <<>>, get_ok |-> TRUE, soup_ok |-> FALSE,
           divs |-> <<>>]}

\* The runs: the arguments of search_technique_sources and --min-score
PipeConfigs ==
    { \* a Tier 1 domain and a Tier 2 batch, then a category without domains
      [technique_id |-> "T1003.006", technique_name |-> "OS Credential Dumping: DCSync",
       categories |-> << [name |-> "security_research", priority |-> "high",
                          domains |-> <<"a.io", "www.b.org">>],
                         [name |-> "sigma_rules", priority |-> "medium",
                          domains |-> <<>>] >>,
       tier1_domains |-> <<"a.io">>, mitre_refs |-> <<>>, extra_terms |-> "",
       max_per_category |-> 1, min_score |-> 40, use_cache |-> TRUE],
      \* more than five Tier 2 domains, two of them cited by MITRE, extra terms
      [technique_id |-> "T1003.006", technique_name |-> "OS Credential Dumping: DCSync",
       categories |-> << [name |-> "sigma_rules", priority |-> "medium",
                          domains |-> <<"d1.io", "d2.io", "d3.io", "www.b.org">>] >>,
       tier1_domains |-> <<"a.io">>,
       mitre_refs |-> << [url |-> "https://A.io/ref"], [name |-> "a book"],
                         [url |-> "https://c.dev/t"] >>,
       extra_terms |-> " lsass ",
       max_per_category |-> 1, min_score |-> 50, use_cache |-> TRUE],
      \* a short name, a category without queries of its own, no cache
      [technique_id |-> "T1053.002", technique_name |-> "Scheduled Task/Job: At",
       categories |-> << [name |-> "vendor_blogs", priority |-> "low",
                          domains |-> <<"a.io">>] >>,
       tier1_domains |-> <<"a.io", "x.org">>, mitre_refs |-> <<>>, extra_terms |-> "  ",
       max_per_category |-> 2, min_score |-> 0, use_cache |-> FALSE],
      \* MITRE cites a configured Tier 1 domain and a configured Tier 2 domain
      [technique_id |-> "T1003.006", technique_name |-> "OS Credential Dumping: DCSync",
       categories |-> << [name |-> "vendor_blogs", priority |-> "low",
                          domains |-> <<"a.io", "www.b.org">>] >>,
       tier1_domains |-> <<"a.io">>,
       mitre_refs |-> << [url |-> "https://a.io/about"], [url |-> "http://WWW.b.org/x"] >>,
       extra_terms |-> "",
       max_per_category |-> 1, min_score |-> 40, use_cache |-> TRUE] }

\* The orders in which a set can be iterated
Orders(S) ==
    {o \in [1..Cardinality(S) -> S] : \A i, j \in 1..Cardinality(S) : o[i] = o[j] => i = j}

PipeInit ==
    /\ pPc = "search"
    /\ \E config \in PipeConfigs :
         \E mrd_order \in Orders(MitreRefDomains(config.mitre_refs)) :
            /\ args = With(config, "mrd_order", mrd_order)
            /\ use_cache = config.use_cache
    /\ DDGS_AVAILABLE = TRUE
    /\ cache = EmptyStore
    /\ now = 0
    /\ lastCall = <<>>
    /\ catIdx = 1
    /\ callIdx = 0
    /\ category_results = <<>>
    /\ global_seen_urls = {}
    /\ pResults = <<>>
    /\ pScored = <<>>
    /\ filtered_count = 0
    /\ pLog = <<>>
    /\ DedupIdle /\ ScoreIdle /\ RateIdle /\ ResearchIdle

\* The call the run is about to make
NextCall == CategoryCalls(args, args.categories[catIdx])[callIdx + 1]

\* The effect of one call of scraper.search on the run: an exception leaves
\* search_technique_sources and main, which catch none
Queried(call, env, found) ==
    /\ Called(call.sent, call.max_results, env, found)
    /\ pLog' = Append(pLog, [category |-> args.categories[catIdx].name, call |-> call,
                             raised |-> found.raised,
                             results |-> IF found.raised THEN <<>> ELSE found.results,
                             events |-> found.events])
    /\ IF found.raised
       THEN /\ pPc' = "aborted"
            /\ UNCHANGED <<callIdx, category_results>>
       ELSE /\ pPc' = pPc
            /\ callIdx' = callIdx + 1
            /\ category_results' = category_results \o CallResults(call, found.results)
    /\ UNCHANGED <<args, catIdx, global_seen_urls, pResults, pScored, filtered_count>>

\* search_technique_sources: the next query of the category
RunQuery ==
    /\ pPc = "search"
    /\ callIdx < Len(CategoryCalls(args, args.categories[catIdx]))
    /\ \E env \in PipeEnvs(NextCall.max_results) :
         Queried(NextCall, env,
                 search(use_cache, DDGS_AVAILABLE, cache, now, NextCall.sent,
                        NextCall.max_results, env))
    /\ UNCHANGED <<dedupVars, scoreVars, rateVars, researchVars>>

\* The end of the loop body of a category, given what the loop over
\* category_results found
Collected(u) ==
    /\ global_seen_urls' = global_seen_urls \cup u.seen
    /\ pResults' = Append(pResults,
                          [name |-> args.categories[catIdx].name,
                           items |-> SubSeq(u.unique_results, 1,
                                            Min(Len(u.unique_results),
                                                args.max_per_category))])

\* search_technique_sources: the category's results are sorted, made unique
\* and truncated; after the last category the function returns
FinishCategory ==
    /\ pPc = "search"
    /\ callIdx = Len(CategoryCalls(args, args.categories[catIdx]))
    /\ Collected(UniqueFrom(Tier1First(category_results), {}, global_seen_urls, <<>>))
    /\ category_results' = <<>>
    /\ callIdx' = 0
    /\ catIdx' = catIdx + 1
    /\ pPc' = IF catIdx = Len(args.categories) THEN "searched" ELSE "search"
    /\ UNCHANGED <<args, pScored, filtered_count, pLog>>
    /\ UNCHANGED <<dedupVars, scoreVars, searchVars, rateVars, researchVars>>

\* main: score, sort and filter the results by relevance
ScoreAndFilter ==
    /\ pPc = "searched"
    /\ pScored' = ScoredAndSorted(pResults, args)
    /\ pResults' = Filtered(pScored', args.min_score)
    /\ filtered_count' = Total(pResults) - Total(pResults')
    /\ pPc' = "scored"
    /\ UNCHANGED <<args, catIdx, callIdx, category_results, global_seen_urls, pLog>>
    /\ UNCHANGED <<dedupVars, scoreVars, searchVars, rateVars, researchVars>>

\* main: deduplicate across categories
Deduplicate ==
    /\ pPc = "scored"
    /\ pResults' = deduplicate_results(pResults)
    /\ pPc' = "done"
    /\ UNCHANGED <<args, catIdx, callIdx, category_results, global_seen_urls,
                   pScored, filtered_count, pLog>>
    /\ UNCHANGED <<dedupVars, scoreVars, searchVars, rateVars, researchVars>>

(***************************************************************************)
(* Claims about deduplicate_results (SpecDedup)                             *)
(***************************************************************************)
\* C2: deduplicate_results is idempotent: run on its own output it returns
\* that output unchanged, for every input mapping.
C2_DedupIdempotent ==
    (dRound = 2 /\ dPc = "done") => dOut2 = dOut1

\* The hosting organization of a code-hosting URL, blob/tree or raw-content:
\* the path segment that follows the host
HostingOrg(url) ==
    LET raw == Find(url, "raw.githubusercontent.com/")
        hub == Find(url, "github.com/")
    IN  Lower(IF raw # 0 THEN OrgGroupAt(url, raw, "raw.githubusercontent.com/")
              ELSE IF hub # 0 THEN OrgGroupAt(url, hub, "github.com/")
              ELSE "")

\* The positions of all_items whose URL has the file key fkey
FileGroup(all_items, fkey) ==
    {i \in DOMAIN all_items : _github_file_key(all_items[i].r.url) = fkey}

\* The candidate of a group the preference list picks: the earliest
\* organization of the list, the first seen among equals
PreferredOf(all_items, group) ==
    LET prio(i) == _github_org_priority(HostingOrg(all_items[i].r.url))
        best == SetMin({prio(i) : i \in group})
    IN  SetMin({i \in group : prio(i) = best})

\* C10: after Pass 1, of the candidates with distinct URLs that share a
\* repository-relative file path (blob/tree and raw-content URLs alike)
\* exactly one is left: the one whose hosting organization is earliest in the
\* preference list, the first seen when none is listed or on equal preference.
C10_Pass1KeepsPreferred ==
    dPc = "pass1" =>
        LET all_items == Flatten(dResults)
        IN  \A i \in DOMAIN all_items :
                LET fkey == _github_file_key(all_items[i].r.url)
                    group == FileGroup(all_items, fkey)
                IN  (/\ fkey # ""
                     /\ \A j, k \in group : j # k => all_items[j].r.url # all_items[k].r.url)
                    => {all_items[j].r.url : j \in group} \ dAfter1
                         = {all_items[PreferredOf(all_items, group)].r.url}

\* C11: in Pass 3, once a not-yet-removed candidate whose normalized title has
\* 10 or more characters is found more than 0.90 similar to a previously
\* accepted title, exactly one of the two candidates is removed: the
\* lower-scored one, and on equal scores the newcomer.
C11_Pass3RemovesOneOfPair ==
    dPc = "pass3" =>
        LET log == Pass3Log(Flatten(dResults), 1, <<>>, dAfter2)
        IN  \A n \in DOMAIN log :
                {log[n].url, log[n].existing.url} \cap log[n].removed
                  = {IF log[n].score > log[n].existing.score
                     THEN log[n].existing.url ELSE log[n].url}

\* What the call of deduplicate_results that has just ended returned
DedupOut == IF dRound = 1 THEN dOut1 ELSE dOut2

\* C12: deduplicate_results only removes: the output has exactly the input's
\* category keys, each category's output list is its input list without the
\* candidates whose URL one of the three passes marked removed, in the
\* input's order and unmodified, and nothing else is absent.
C12_OnlyRemoves ==
    dPc = "done" =>
        /\ DOMAIN DedupOut = DOMAIN dResults
        /\ \A c \in DOMAIN dResults :
              /\ DedupOut[c].name = dResults[c].name
              /\ DedupOut[c].items
                   = SelectSeq(dResults[c].items, LAMBDA r : r.url \notin removed_urls)

\* A call that removed some candidates of a category and left others of it
C12_Witness ==
    /\ dPc = "done"
    /\ removed_urls # {}
    /\ \E c \in DOMAIN dResults :
          /\ DedupOut[c].items # <<>>
          /\ Len(DedupOut[c].items) < Len(dResults[c].items)
    /\ \E c \in DOMAIN dResults : dResults[c].items # <<>> /\ DedupOut[c].items = <<>>

(***************************************************************************)
(* Claims about the relevance scorer (SpecScore)                           *)
(***************************************************************************)
\* C7: the score compute_relevance_score returns lies in [0,1], and so does
\* the relevance_score left after the scoped-query boost of main, however
\* many signals match (hundredths: 0..100).
C7_ScoreInUnitInterval ==
    sPc \in {"scored", "boosted"} => (0 <= sScore /\ sScore <= 100)

\* The case of C7: every signal matches (the points add up to more than 1.0)
\* and the result of a scoped query has been boosted.
C7_Witness ==
    /\ sPc = "boosted"
    /\ IsScoped(sIn.result)
    /\ SignalPoints(sIn.result, sIn.technique_id, sIn.technique_name,
                    sIn.mitre_ref_domains, sIn.trusted_sources) > 100

(***************************************************************************)
(* Claims about the search executor (SpecSearch)                           *)
(***************************************************************************)
\* C3: with the cache enabled, a call of search for a query whose result set
\* was stored less than the TTL (one day) before returns an equal result set,
\* without raising, without waiting on the rate limiter and without invoking
\* the primary or the fallback provider.
C3_CacheRoundTrip ==
    (lastCall # <<>> /\ use_cache /\ lastCall.fresh # <<>>)
        => /\ ~lastCall.raised
           /\ lastCall.results = lastCall.fresh[1]
           /\ lastCall.events = <<>>

\* A call for a stored query, made after time has passed and while the
\* primary provider would have answered
C3_Witness ==
    /\ lastCall # <<>>
    /\ use_cache
    /\ lastCall.fresh # <<>>
    /\ now > 0
    /\ lastCall.world.ddgs_ok

\* C4: search never raises to its caller: when the primary mechanism fails the
\* fallback is run, and when the fallback fails too (request or parsing)
\* search returns an empty sequence.
C4_NeverRaises ==
    lastCall # <<>>
        => /\ ~lastCall.raised
           /\ (lastCall.events # <<>> /\ DDGS_AVAILABLE /\ ~lastCall.world.ddgs_ok)
                 => (lastCall.events = <<"wait", "ddgs", "html">>
                     /\ ((~lastCall.world.get_ok \/ ~lastCall.world.soup_ok)
                            => lastCall.results = <<>>))

\* C6: search(query, maxResults) returns at most maxResults records, whether
\* they come from the primary provider, the fallback or the cache.
C6_AtMostMaxResults ==
    (lastCall # <<>> /\ ~lastCall.raised)
        => Len(lastCall.results) <= lastCall.max_results

(***************************************************************************)
(* Claims about a run of main (SpecPipeline)                                *)
(***************************************************************************)
\* The URLs of a mapping, category after category
UrlsOf(mapping) == [i \in DOMAIN Flatten(mapping) |-> Flatten(mapping)[i].r.url]

\* C1: after the full pipeline no URL occurs twice in the final mapping,
\* neither inside one category's list nor in the lists of two categories.
C1_NoUrlTwice ==
    pPc = "done"
        => \A i, j \in DOMAIN UrlsOf(pResults) :
              UrlsOf(pResults)[i] = UrlsOf(pResults)[j] => i = j

\* A finished run in which searches of two categories returned the same URL
\* and that URL is in the final mapping
C1_Witness ==
    /\ pPc = "done"
    /\ \E i, j \in DOMAIN pLog :
          /\ pLog[i].category # pLog[j].category
          /\ \E m \in DOMAIN pLog[i].results, n \in DOMAIN pLog[j].results :
                /\ pLog[i].results[m].url = pLog[j].results[n].url
                /\ pLog[i].results[m].url \in Range(UrlsOf(pResults))

\* C5: search_technique_sources is never aborted by a failing query: it
\* returns a mapping with one entry per configured category.
C5_NeverAborted ==
    /\ pPc # "aborted"
    /\ pPc \in {"searched", "scored", "done"} => Len(pResults) = Len(args.categories)

\* The results of every category once main has assigned the scores
ScoredItems == {Flatten(pScored)[i].r : i \in DOMAIN Flatten(pScored)}

\* C8: every Tier 2 result whose producing query has an explicit site
\* restriction ends with relevance_score = min(base score + 0.20, 1.0), in
\* every branch of the Tier 2 loop.
C8_ScopedBoost ==
    pPc \in {"scored", "done"}
        => \A r \in ScoredItems :
              (r._search_tier = "tier2" /\ Contains(r.producing_query, "site:"))
                 => r.relevance_score
                      = Min(compute_relevance_score(r, args.technique_id, args.technique_name,
                                                    MitreRefDomains(args.mitre_refs),
                                                    args.categories) + 20, 100)

\* The number of scored results below the threshold, category by category
RECURSIVE BelowThreshold(_, _)
BelowThreshold(mapping, min_score) ==
    IF mapping = <<>> THEN 0
    ELSE Cardinality({i \in DOMAIN Head(mapping).items :
                         Head(mapping).items[i].relevance_score < min_score})
         + BelowThreshold(Tail(mapping), min_score)

\* C9: after the threshold filter each category holds exactly the scored
\* candidates with relevance_score >= minScore (equality keeps), and
\* filtered_count is the number of candidates scored below minScore.
C9_ThresholdFilter ==
    pPc = "scored"
        => /\ \A c \in DOMAIN pScored :
                /\ Range(pResults[c].items)
                     = {r \in Range(pScored[c].items) : r.relevance_score >= args.min_score}
                /\ Len(pResults[c].items)
                     = Cardinality({i \in DOMAIN pScored[c].items :
                                       pScored[c].items[i].relevance_score >= args.min_score})
           /\ filtered_count = BelowThreshold(pScored, args.min_score)

\* A filtered run that kept a candidate scored exactly minScore and excluded
\* another one
C9_Witness ==
    /\ pPc = "scored"
    /\ filtered_count > 0
    /\ \E c \in DOMAIN pResults : \E i \in DOMAIN pResults[c].items :
          pResults[c].items[i].relevance_score = args.min_score

\* C13: when extra_terms is not blank, every query string that
\* search_technique_sources hands to the search executor, Tier 1 or Tier 2,
\* whatever the category, carries the extra terms.
C13_ExtraInEveryQuery ==
    (pPc # "off" /\ Strip(args.extra_terms) # "") =>
        \A n \in DOMAIN pLog : Contains(pLog[n].call.sent, Strip(args.extra_terms))

\* The reference short name: the text after the last colon, trimmed
TrimmedAfterLastColon(name) == Strip(From(name, RFind(name, ":") + 1))

\* C14: for every subject name that contains a colon, the short name of
\* _build_queries and of search_technique_sources is the trimmed text after
\* the last colon, and the short name of compute_relevance_score is that text
\* lowercased, so the derivations agree.
C14_ShortNamesAgree ==
    (sPc # "off" /\ Contains(sIn.technique_name, ":")) =>
        /\ ShortName(sIn.technique_name) = TrimmedAfterLastColon(sIn.technique_name)
        /\ ScorerShortName(sIn.technique_name)
             = Lower(TrimmedAfterLastColon(sIn.technique_name))

\* A scored candidate of a subject whose name has two colons and whitespace
\* around its last part
C14_Witness ==
    /\ sPc = "scored"
    /\ Len(Split(sIn.technique_name, ":")) > 2
    /\ ShortName(sIn.technique_name) = "DCSync"
    /\ ScorerShortName(sIn.technique_name) = "dcsync"
    /\ sIn.result.title = "dcsync explained"
    /\ sScore >= 25

\* The two shared queries of a subject, in their order: the exact-phrase id
\* with the exact-phrase short name, then the short name with "detection"
SharedQueries(technique_id, short_name, extra) ==
    << "\"" \o technique_id \o "\" \"" \o short_name \o "\"" \o extra,
       "\"" \o short_name \o "\" detection" \o extra >>

\* The Tier 2 calls the run has made for a category, in order
Tier2Sent(name) ==
    SelectSeq(pLog, LAMBDA e : e.category = name /\ e.call.tier = "tier2")

\* Whether list ends with the two shared queries, in order, after queries
\* that are none of the two
EndsWithShared(list, shared) ==
    /\ Len(list) >= 2
    /\ list[Len(list) - 1] = shared[1]
    /\ list[Len(list)] = shared[2]
    /\ \A i \in 1..(Len(list) - 2) : list[i] # shared[1] /\ list[i] # shared[2]

\* C15: the list _build_queries gives is determined by (subjectId,
\* subjectName, category, extra): the category-specific queries come first and
\* the last two entries are the two shared queries in their fixed order; each
\* batch of a category sends that same list in that order.
C15_QueryListOrder ==
    pPc = "searched" =>
        \A c \in DOMAIN args.categories :
            /\ EndsWithShared(_build_queries(args.technique_id, args.technique_name,
                                             args.categories[c].name,
                                             Extra(args.extra_terms)),
                              SharedQueries(args.technique_id,
                                            TrimmedAfterLastColon(args.technique_name),
                                            Extra(args.extra_terms)))
            /\ \A i \in DOMAIN Tier2Sent(args.categories[c].name) :
                  Tier2Sent(args.categories[c].name)[i].call.query
                    = _build_queries(args.technique_id, args.technique_name,
                                     args.categories[c].name, Extra(args.extra_terms))
                        [((i - 1) % Len(_build_queries(args.technique_id,
                                                       args.technique_name,
                                                       args.categories[c].name,
                                                       Extra(args.extra_terms)))) + 1]

\* A finished search whose category has a query of its own and sent its list
\* for two batches
C15_Witness ==
    /\ pPc = "searched"
    /\ \E c \in DOMAIN args.categories :
          /\ Len(Tier2Sent(args.categories[c].name)) = 6
          /\ Tier2Sent(args.categories[c].name)[1].call.batch
               # Tier2Sent(args.categories[c].name)[4].call.batch

\* C16: in search every outbound network call, the fallback's call after the
\* primary has failed included, comes right after a RateLimiter.wait() of its
\* own, with no other outbound call in between.
C16_WaitBeforeEveryCall ==
    lastCall # <<>> =>
        \A i \in DOMAIN lastCall.events :
            lastCall.events[i] \in {"ddgs", "html"} =>
                i > 1 /\ lastCall.events[i - 1] = "wait"

\* C17: in a run of search_technique_sources with the cache enabled, at most
\* one call of search per distinct query string reaches the search provider:
\* also for a self-scoped query re-run for each Tier 2 batch, for a query
\* shared by categories, and for a query whose result was empty.
C17_OneProviderCallPerQuery ==
    (pPc # "off" /\ args.use_cache) =>
        \A m, n \in DOMAIN pLog :
            (m < n /\ pLog[m].call.sent = pLog[n].call.sent /\ pLog[m].events # <<>>)
                => pLog[n].events = <<>>

\* Whether the call recorded by c was a cache miss, with the cache in use,
\* that returned a result that is not empty
StoringCall(c) == use_cache /\ c.events # <<>> /\ ~c.raised /\ c.results # <<>>

\* store with exactly the entry of key set to value at time t
WithEntry(store, key, value, t) ==
    [k \in DOMAIN store \cup {key} |->
        IF k = key THEN [value |-> value, stored_at |-> t] ELSE store[k]]

\* store without the entry of key
WithoutEntry(store, key) == [k \in DOMAIN store \ {key} |-> store[k]]

\* Whether store holds under key an entry older than the TTL of one day
HoldsExpired(store, key, t) ==
    key \in DOMAIN store /\ t - store[key].stored_at > UnitsPerDay

\* C18, as stated: search changes the cache only on a cache miss with the
\* cache enabled and a non-empty result, and then sets exactly the entry keyed
\* by the query to the returned result; in every other case (cache hit, empty
\* result, use_cache false) the cache is left unchanged.
C18_CacheFrameAsStated ==
    [][ now' = now =>
          IF StoringCall(lastCall')
          THEN cache' = WithEntry(cache, _cache_key(lastCall'.query), lastCall'.results, now)
          ELSE cache' = cache ]_vars

\* C18, amended: search changes the cache only (a) on a cache miss with the
\* cache enabled and a non-empty result, where it sets exactly the entry keyed
\* by the query to the returned result, and (b) when, with the cache enabled,
\* the entry of the query has expired and the call returns nothing or raises,
\* where the read removes exactly that entry; in every other case the cache is
\* left unchanged.
C18_CacheFrame ==
    [][ now' = now =>
          IF StoringCall(lastCall')
          THEN cache' = WithEntry(cache, _cache_key(lastCall'.query), lastCall'.results, now)
          ELSE IF use_cache /\ HoldsExpired(cache, _cache_key(lastCall'.query), now)
          THEN cache' = WithoutEntry(cache, _cache_key(lastCall'.query))
          ELSE cache' = cache ]_vars

\* A miss that stored its result beside the older entry of another query
C18_Witness ==
    /\ lastCall # <<>>
    /\ StoringCall(lastCall)
    /\ _cache_key(lastCall.query) \in DOMAIN cache
    /\ cache[_cache_key(lastCall.query)] = [value |-> lastCall.results, stored_at |-> now]
    /\ \E k \in DOMAIN cache : cache[k].stored_at < now

\* C19: for one RateLimiter with delay d and a clock that does not go
\* backwards, two consecutive returns of wait() are at least d apart.
C19_WaitSpacing ==
    Len(returns) = 2 => returns[2] - returns[1] >= delay

\* A second return of wait() that had to sleep, exactly delay after the first
C19_Witness ==
    /\ Len(returns) = 2
    /\ delay > 1
    /\ wPc = "idle"
    /\ wake > returns[1]
    /\ returns[2] = returns[1] + delay

\* Whether some category of the given priority lists the domain
ListedWith(domain, trusted_sources, priority) ==
    \E c \in DOMAIN trusted_sources :
        /\ trusted_sources[c].priority = priority
        /\ domain \in Range(trusted_sources[c].domains)

\* The reference additive formula, in hundredths: the points of exactly the
\* signals that hold, capped at 1.0
ReferenceScore(in) ==
    Min(100,
          (IF Contains(Lower(in.result.title), Lower(in.technique_id)) THEN 30 ELSE 0)
        + (IF ScorerShortName(in.technique_name) # ""
              /\ Contains(Lower(in.result.title), ScorerShortName(in.technique_name))
           THEN 25 ELSE 0)
        + (IF Contains(Lower(in.result.description), Lower(in.technique_id))
           THEN 15 ELSE 0)
        + (IF ScorerShortName(in.technique_name) # ""
              /\ Contains(Lower(in.result.description), ScorerShortName(in.technique_name))
           THEN 10 ELSE 0)
        + (IF \/ Contains(Lower(in.result.url), Lower(in.technique_id))
              \/ Contains(Lower(in.result.url),
                          Join(Split(Lower(in.technique_id), "."), "/"))
           THEN 10 ELSE 0)
        + (IF Lower(in.result.domain) \in in.mitre_ref_domains THEN 10 ELSE 0)
        + (IF Lower(in.result.domain) # ""
              /\ ListedWith(Lower(in.result.domain), in.trusted_sources, "high")
           THEN 15 ELSE 0)
        + (IF Lower(in.result.domain) # ""
              /\ ListedWith(Lower(in.result.domain), in.trusted_sources, "medium")
           THEN 5 ELSE 0))

\* C20: compute_relevance_score equals the reference additive formula for
\* every input: the capped sum of the points of exactly the signals that
\* hold, the two trust signals being decided by lookup across all configured
\* categories, whatever their order.
C20_ScoreIsReferenceFormula ==
    sPc = "scored" => sScore = ReferenceScore(sIn)

\* The academic paper a URL stands for: its arXiv or IEEE id with the kind of
\* id, "" when it has none
PaperKey(url) ==
    IF _arxiv_id(url) # "" THEN "arxiv:" \o _arxiv_id(url)
    ELSE IF _ieee_id(url) # "" THEN "ieee:" \o _ieee_id(url)
    ELSE ""

\* The positions of the candidates Pass 2 finds not yet removed that carry
\* the paper key
PaperGroup(all_items, key) ==
    {i \in DOMAIN all_items :
        all_items[i].r.url \notin dAfter1 /\ PaperKey(all_items[i].r.url) = key}

\* The first of the highest-scored candidates of a group
BestOf(all_items, group) ==
    SetMin({i \in group : \A j \in group : ScoreOf(all_items[j].r) <= ScoreOf(all_items[i].r)})

\* C21: of the candidates with distinct URLs, not removed before Pass 2, that
\* carry the same arXiv id or the same IEEE id, exactly one is left after
\* Pass 2: the one with the highest relevance_score, the first seen among
\* equal highest scores.
C21_Pass2KeepsBest ==
    dPc = "pass2" =>
        \A i \in DOMAIN Flatten(dResults) :
            (/\ Flatten(dResults)[i].r.url \notin dAfter1
             /\ PaperKey(Flatten(dResults)[i].r.url) # "")
            => {Flatten(dResults)[j].r.url :
                   j \in PaperGroup(Flatten(dResults),
                                    PaperKey(Flatten(dResults)[i].r.url))} \ dAfter2
                 = {Flatten(dResults)[BestOf(Flatten(dResults),
                        PaperGroup(Flatten(dResults),
                                   PaperKey(Flatten(dResults)[i].r.url)))].r.url}

\* Three candidates of one paper of which the second seen scores highest
C21_Witness ==
    /\ dPc = "pass2"
    /\ Len(Flatten(dResults)) = 3
    /\ Cardinality(dAfter2) = 2
    /\ Flatten(dResults)[2].r.url \notin dAfter2
    /\ PaperKey(Flatten(dResults)[2].r.url) # ""

(***************************************************************************)
(* C22  Tier partition in search_technique_sources: for every category the *)
(* Tier 1 list is exactly the configured domains that are in the high-value *)
(* set, in their configured order; the Tier 2 list is the remaining         *)
(* configured domains, in order, followed by each reference-cited domain    *)
(* that is in neither list, once; and the two lists share no domain         *)
(***************************************************************************)
InHighValue(d) == d \in Range(args.tier1_domains)

NotInHighValue(d) == d \notin Range(args.tier1_domains)

\* s lists the members of S, each once
ListsOnce(s, S) ==
    /\ Range(s) = S
    /\ \A i, j \in DOMAIN s : s[i] = s[j] => i = j

PartitionOf(category) ==
    LET cat_tier1 == CatTier1(category.domains, args.tier1_domains)
        cat_tier2 == CatTier2(category.domains, args.tier1_domains, args.mrd_order)
        rest == SelectSeq(category.domains, NotInHighValue)
    IN  /\ cat_tier1 = SelectSeq(category.domains, InHighValue)
        /\ Len(cat_tier2) >= Len(rest)
        /\ SubSeq(cat_tier2, 1, Len(rest)) = rest
        /\ ListsOnce(SubSeq(cat_tier2, Len(rest) + 1, Len(cat_tier2)),
                     MitreRefDomains(args.mitre_refs)
                         \ (Range(cat_tier1) \cup Range(rest)))
        /\ Range(cat_tier1) \cap Range(cat_tier2) = {}

C22_TierPartition ==
    pPc # "off" =>
        /\ \A c \in DOMAIN args.categories : PartitionOf(args.categories[c])
        \* and these are the lists the calls are made from
        /\ \A i \in DOMAIN pLog :
             \E c \in DOMAIN args.categories :
                /\ args.categories[c].name = pLog[i].category
                /\ IF pLog[i].call.tier = "tier1"
                   THEN \E d \in Range(SelectSeq(args.categories[c].domains, InHighValue)) :
                           Contains(pLog[i].call.sent, "site:" \o d)
                   ELSE Range(pLog[i].call.batch)
                            \subseteq Range(SelectSeq(args.categories[c].domains,
                                                      NotInHighValue))
                                      \cup MitreRefDomains(args.mitre_refs)

\* A finished search in which MITRE cites a domain of the Tier 1 list and a
\* domain already in the Tier 2 list, and the batch is the configured domain alone
C22_Witness ==
    /\ pPc = "searched"
    /\ \E c \in DOMAIN args.categories :
          /\ MitreRefDomains(args.mitre_refs)
                 \cap Range(CatTier1(args.categories[c].domains, args.tier1_domains)) # {}
          /\ MitreRefDomains(args.mitre_refs)
                 \cap Range(SelectSeq(args.categories[c].domains, NotInHighValue)) # {}
          /\ \E i \in DOMAIN pLog : /\ pLog[i].call.tier = "tier2"
                                    /\ pLog[i].call.batch = <<"www.b.org">>

(***************************************************************************)
(* C23  Tier 2 batching in search_technique_sources: when the search of a  *)
(* category with n > 0 Tier 2 domains has returned, the domains were taken  *)
(* in consecutive batches of at most 5 (each domain in exactly one batch),  *)
(* and for each batch each of the first min(3, number of queries) queries   *)
(* was handed to search exactly once, in order: followed by a site filter   *)
(* naming exactly the batch's domains when the query has no "site:", and    *)
(* unchanged when it has one                                                *)
(***************************************************************************)
\* The b-th consecutive batch (0-based) of at most 5 domains
NthBatch(cat_tier2, b) == SubSeq(cat_tier2, 5 * b + 1, Min(5 * b + 5, Len(cat_tier2)))

\* " (site:d1 OR site:d2 ...)" for the domains of a batch
SiteClause(batch) ==
    " (" \o Join([j \in DOMAIN batch |-> "site:" \o batch[j]], " OR ") \o ")"

BatchedAsStated(category) ==
    LET cat_tier2 == CatTier2(category.domains, args.tier1_domains, args.mrd_order)
        queries == _build_queries(args.technique_id, args.technique_name,
                                  category.name, Extra(args.extra_terms))
        nq == Min(3, Len(queries))
        sent == Tier2Sent(category.name)
    IN  Len(cat_tier2) > 0 =>
           /\ Len(sent) = nq * ((Len(cat_tier2) + 4) \div 5)
           /\ \A i \in DOMAIN sent :
                 /\ sent[i].call.batch = NthBatch(cat_tier2, (i - 1) \div nq)
                 /\ sent[i].call.query = queries[((i - 1) % nq) + 1]
                 /\ sent[i].call.sent
                      = IF Contains(sent[i].call.query, "site:")
                        THEN sent[i].call.query
                        ELSE sent[i].call.query \o SiteClause(sent[i].call.batch)

C23_Tier2Batching ==
    pPc = "searched" =>
        \A c \in DOMAIN args.categories : BatchedAsStated(args.categories[c])

\* A finished search with six Tier 2 domains: a query with its own site: went
\* out unchanged for the batch of five, and a query without one went out with
\* the filter of the batch of one
C23_Witness ==
    /\ pPc = "searched"
    /\ \E i, j \in DOMAIN pLog :
          /\ pLog[i].call.tier = "tier2" /\ pLog[j].call.tier = "tier2"
          /\ Len(pLog[i].call.batch) = 5
          /\ Contains(pLog[i].call.query, "site:")
          /\ pLog[i].call.sent = pLog[i].call.query
          /\ Len(pLog[j].call.batch) = 1
          /\ ~Contains(pLog[j].call.query, "site:")
          /\ pLog[j].call.sent # pLog[j].call.query

(***************************************************************************)
(* C24  Each category list that search_technique_sources returns has at    *)
(* most max_per_category entries, with all its Tier 1 entries before all   *)
(* its Tier 2 entries; and when a Tier 2 result is kept, no Tier 1 result  *)
(* of the category that passed the duplicate and landing-page tests was    *)
(* cut off.  Stated on the step that ends a category: category_results is  *)
(* what the queries gathered, the new entry of pResults what is returned    *)
(***************************************************************************)
TierOf(r) == Get(r, "_search_tier", "")

KeptAsStated(gathered, claimed, kept, max_per_category) ==
    /\ Len(kept) <= max_per_category
    /\ \A i, j \in DOMAIN kept :
          TierOf(kept[i]) = "tier2" /\ TierOf(kept[j]) = "tier1" => j < i
    /\ (\E i \in DOMAIN kept : TierOf(kept[i]) = "tier2")
          => \A k \in DOMAIN gathered :
                (/\ TierOf(gathered[k]) = "tier1"
                 /\ gathered[k].url \notin claimed
                 /\ ~is_generic_landing_page(gathered[k].url))
                => \E i \in DOMAIN kept : /\ kept[i].url = gathered[k].url
                                          /\ TierOf(kept[i]) = "tier1"

C24_Tier1BeforeTier2 ==
    [][(pPc = "search" /\ Len(pResults') = Len(pResults) + 1)
          => KeptAsStated(category_results, global_seen_urls,
                          pResults'[Len(pResults')].items, args.max_per_category)]_vars

\* A search has returned a category list that is full and holds a Tier 1
\* result, while a Tier 2 call of the category found another page that is no
\* landing page and is in no returned list: truncation cut the Tier 2 result
C24_Witness ==
    /\ pPc = "searched"
    /\ \E c \in DOMAIN pResults :
          /\ Len(pResults[c].items) = args.max_per_category
          /\ \E i \in DOMAIN pResults[c].items : TierOf(pResults[c].items[i]) = "tier1"
          /\ \E e \in DOMAIN pLog :
                /\ pLog[e].category = pResults[c].name
                /\ pLog[e].call.tier = "tier2"
                /\ \E m \in DOMAIN pLog[e].results :
                      /\ ~is_generic_landing_page(pLog[e].results[m].url)
                      /\ \A d \in DOMAIN pResults :
                            \A n \in DOMAIN pResults[d].items :
                               pResults[d].items[n].url # pLog[e].results[m].url

(***************************************************************************)
(* C25  Configuration absence: when the search has returned, a category    *)
(* with no configured domains and no reference-cited domains had no Tier 1 *)
(* query, each of its first three queries was handed to search exactly     *)
(* once, and every query sent for it carries no site restriction           *)
(***************************************************************************)
CallsOf(name) == SelectSeq(pLog, LAMBDA e : e.category = name)

C25_NoDomainsUnscoped ==
    pPc = "searched" =>
        \A c \in DOMAIN args.categories :
            (/\ args.categories[c].domains = <<>>
             /\ MitreRefDomains(args.mitre_refs) = {})
            => LET sent == CallsOf(args.categories[c].name)
                   queries == FirstThree(_build_queries(args.technique_id,
                                                        args.technique_name,
                                                        args.categories[c].name,
                                                        Extra(args.extra_terms)))
               IN  /\ \A i \in DOMAIN sent : sent[i].call.tier # "tier1"
                   /\ Len(sent) = Len(queries)
                   /\ \A i \in DOMAIN sent : sent[i].call.sent = queries[i]
                   /\ \A i \in DOMAIN sent : ~Contains(sent[i].call.sent, "site:")

(***************************************************************************)
(* C26  Every record that search returns on a cache miss, from the package *)
(* or from the HTML scraping, has a non-empty URL whose scheme is http or  *)
(* https and whose host is non-empty                                       *)
(***************************************************************************)
\* The host of an authority [userinfo@]host[:port], as urlparse(url).hostname
\* gives it ("" for None); bracketed IPv6 hosts are not among the inputs
HostOf(netloc) ==
    Lower(Split(Split(netloc, "@")[Len(Split(netloc, "@"))], ":")[1])

WellFormed(url) ==
    /\ url # ""
    /\ urlparse(url).scheme \in {"http", "https"}
    /\ HostOf(urlparse(url).netloc) # ""

\* The call was no cache hit: it went through rate_limiter.wait()
CacheMiss(call) == call # <<>> /\ call.events # <<>>

C26_ReturnedUrlsWellFormed ==
    (CacheMiss(lastCall) /\ ~lastCall.raised)
        => \A i \in DOMAIN lastCall.results : WellFormed(lastCall.results[i].url)

\* The same with the authority (netloc) in the place of the host: the test
\* that is_valid_url makes
ReturnedUrlsHaveAuthority ==
    (CacheMiss(lastCall) /\ ~lastCall.raised)
        => \A i \in DOMAIN lastCall.results :
              /\ lastCall.results[i].url # ""
              /\ urlparse(lastCall.results[i].url).scheme \in {"http", "https"}
              /\ urlparse(lastCall.results[i].url).netloc # ""

(***************************************************************************)
(* C27  After deduplicate_results no two surviving candidates whose        *)
(* normalized titles both have 10 or more characters have a title          *)
(* similarity above 0.90; so of three or more candidates with identical    *)
(* long titles and distinct URLs exactly one survives                      *)
(***************************************************************************)
LongTitle(r) == Len(_normalize_title(r.title)) >= 10

C27_NoSimilarSurvivors ==
    dPc = "done" =>
        LET left == Flatten(DedupOut)
        IN  \A i, j \in DOMAIN left :
               (i < j /\ LongTitle(left[i].r) /\ LongTitle(left[j].r))
               => ~RatioAbove90(_normalize_title(left[j].r.title),
                                _normalize_title(left[i].r.title))

(***************************************************************************)
(* C28  First-claim-wins in search_technique_sources: whenever a URL is    *)
(* dropped from a category because an earlier category already claimed it  *)
(* (it is in global_seen_urls), that URL is in the list returned for an    *)
(* earlier category.  Stated on the step that ends a category.             *)
(***************************************************************************)
ReturnedEarlier(url) ==
    \E c \in DOMAIN pResults :
       \E n \in DOMAIN pResults[c].items : pResults[c].items[n].url = url

C28_ClaimedUrlIsReturned ==
    [][(pPc = "search" /\ Len(pResults') = Len(pResults) + 1)
          => \A k \in DOMAIN category_results :
                category_results[k].url \in global_seen_urls
                => ReturnedEarlier(category_results[k].url)]_vars

(***************************************************************************)
(* The research assistant (tools/trr-research-assistant).  SpecResearch:    *)
(* one project from create_project on, one action per command; a command    *)
(* loads state.json, changes the state and saves it, and a command that     *)
(* exits with an error saves nothing.  Of the state the model keeps what    *)
(* the phase gates read and the phase statuses; timestamps, why_used (which *)
(* only adds a warning), references, sources and notes are left out.        *)
(***************************************************************************)
PHASE_ORDER == <<"understanding", "scoping", "procedures", "validation">>

\* The position of a phase in PHASE_ORDER, counted from 1
get_phase_index(phase_name) ==
    CHOOSE i \in DOMAIN PHASE_ORDER : PHASE_ORDER[i] = phase_name

\* The gates: whether the list of errors is empty
check_understanding_gate(bq) ==
    /\ bq.technique_name # ""
    /\ bq.tactics # <<>>
    /\ bq.platforms # <<>>
    /\ bq.attacker_objective # ""
    /\ bq.prerequisites # ""

check_scoping_gate(sc) ==
    /\ sc.scope_statement # ""
    /\ Len(sc.exclusions) >= 1
    /\ Len(sc.constraints) >= 1

check_procedures_gate(procs) ==
    /\ Len(procs) >= 1
    /\ \A i \in DOMAIN procs : /\ procs[i].name # ""
                               /\ procs[i].summary # ""
                               /\ procs[i].distinguishing_operations # ""

check_gate(bq, sc, procs, phase_name) ==
    CASE phase_name = "understanding" -> check_understanding_gate(bq)
      [] phase_name = "scoping" -> check_scoping_gate(sc)
      [] phase_name = "procedures" -> check_procedures_gate(procs)
      [] phase_name = "validation" -> TRUE
      [] OTHER -> FALSE

\* complete_phase: [success, phases]
complete_phase(ph, passed, phase_name, force) ==
    IF ~passed /\ ~force THEN [success |-> FALSE, phases |-> ph]
    ELSE LET done == [ph EXCEPT ![phase_name] = "complete"]
             idx == get_phase_index(phase_name)
         IN  [success |-> TRUE,
              phases |-> IF idx + 1 <= Len(PHASE_ORDER)
                            /\ done[PHASE_ORDER[idx + 1]] = "not_started"
                         THEN [done EXCEPT ![PHASE_ORDER[idx + 1]] = "in_progress"]
                         ELSE done]

\* _auto_advance_phases: the phases after it
_auto_advance_phases(ph, bq) ==
    IF ph.understanding # "complete"
    THEN IF check_understanding_gate(bq)
         THEN [ph EXCEPT !.understanding = "complete", !.scoping = "in_progress"]
         ELSE [ph EXCEPT !.understanding = "in_progress"]
    ELSE ph

\* ", ".join(parts)
CommaJoined(parts) == Join(parts, ", ")

\* import_scraper_json: basic_questions seeded from technique_info, a field
\* only when it is empty or replace is set
import_scraper_json(bq, technique_info, replace) ==
    [technique_name |->
        IF Get(technique_info, "name", "") # "" /\ (bq.technique_name = "" \/ replace)
        THEN technique_info.name ELSE bq.technique_name,
     tactics |->
        IF Get(technique_info, "tactics", <<>>) # <<>> /\ (bq.tactics = <<>> \/ replace)
        THEN technique_info.tactics ELSE bq.tactics,
     platforms |->
        IF Get(technique_info, "platforms", <<>>) # <<>> /\ (bq.platforms = <<>> \/ replace)
        THEN technique_info.platforms ELSE bq.platforms,
     attacker_objective |->
        IF Get(technique_info, "description", "") # ""
           /\ (bq.attacker_objective = "" \/ replace)
        THEN technique_info.description ELSE bq.attacker_objective,
     prerequisites |->
        IF Get(technique_info, "permissions_required", <<>>) # <<>>
           /\ (bq.prerequisites = "" \/ replace)
        THEN CommaJoined(technique_info.permissions_required) ELSE bq.prerequisites]

\* understand set: [v.strip() for v in value.split(",") if v.strip()]
ParsedList(value) ==
    SelectSeq([i \in DOMAIN Split(value, ",") |-> Strip(Split(value, ",")[i])],
              LAMBDA v : v # "")

\* The most exclusions, constraints and procedures of the project
MaxExclusions == 1
MaxConstraints == 1
MaxProcedures == 1

\* The values the commands are given
StringFields == {"technique_name", "attacker_objective", "prerequisites"}
ListFields == {"tactics", "platforms"}
FieldValues ==
    [technique_name |-> {"", "DCSync"},
     attacker_objective |-> {"", "replicate the directory"},
     prerequisites |-> {"", "Administrator, SYSTEM"},
     tactics |-> {" , ", "credential-access"},
     platforms |-> {"", " Windows"}]

\* The technique_info of the reports the scraper can have written
TechniqueInfos ==
    { [name |-> "DCSync"],
      [name |-> "DCSync", tactics |-> <<"credential-access">>,
       platforms |-> <<"Windows">>, description |-> "replicate the directory",
       permissions_required |-> <<"Administrator", "SYSTEM">>] }

\* create_project
ResearchInit ==
    /\ rPc = "open"
    /\ phases = [understanding |-> "in_progress", scoping |-> "not_started",
                 procedures |-> "not_started", validation |-> "not_started"]
    /\ basic_questions = [technique_name |-> "DCSync", tactics |-> <<>>,
                          platforms |-> <<>>, attacker_objective |-> "",
                          prerequisites |-> ""]
    /\ scoping = [scope_statement |-> "", exclusions |-> <<>>, constraints |-> <<>>]
    /\ procedures = <<>>
    /\ DedupIdle /\ ScoreIdle /\ SearchIdle /\ PipeIdle /\ RateIdle

\* understand set FIELD VALUE
UnderstandSet ==
    /\ rPc = "open"
    /\ \E field \in StringFields \cup ListFields :
         \E value \in FieldValues[field] :
            basic_questions' =
                [basic_questions EXCEPT
                    ![field] = IF field \in ListFields THEN ParsedList(value) ELSE value]
    /\ UNCHANGED <<rPc, phases, scoping, procedures>>
    /\ UNCHANGED <<dedupVars, scoreVars, searchVars, pipeVars, rateVars>>

\* understand complete, scope complete, proc complete: the state is saved
\* only when complete_phase succeeds
Completed(phase_name, force) ==
    /\ rPc = "open"
    /\ phases' = complete_phase(phases,
                                check_gate(basic_questions, scoping, procedures,
                                           phase_name),
                                phase_name, force).phases
    /\ UNCHANGED <<rPc, basic_questions, scoping, procedures>>
    /\ UNCHANGED <<dedupVars, scoreVars, searchVars, pipeVars, rateVars>>

UnderstandComplete == \E force \in BOOLEAN : Completed("understanding", force)

ScopeComplete == \E force \in BOOLEAN : Completed("scoping", force)

ProcComplete == \E force \in BOOLEAN : Completed("procedures", force)

\* scope set-statement
ScopeSetStatement ==
    /\ rPc = "open"
    /\ \E statement \in {"", "replication requests only"} :
          scoping' = [scoping EXCEPT !.scope_statement = statement]
    /\ UNCHANGED <<rPc, phases, basic_questions, procedures>>
    /\ UNCHANGED <<dedupVars, scoreVars, searchVars, pipeVars, rateVars>>

\* scope add-exclusion
ScopeAddExclusion ==
    /\ rPc = "open"
    /\ Len(scoping.exclusions) < MaxExclusions
    /\ scoping' = [scoping EXCEPT
                      !.exclusions = Append(@, [item |-> "golden ticket",
                                                rationale |-> "another technique"])]
    /\ UNCHANGED <<rPc, phases, basic_questions, procedures>>
    /\ UNCHANGED <<dedupVars, scoreVars, searchVars, pipeVars, rateVars>>

\* exclusions.pop(index - 1)
Popped(list, index) == SubSeq(list, 1, index - 1) \o SubSeq(list, index + 1, Len(list))

\* scope remove-exclusion INDEX: an index out of range is an error
ScopeRemoveExclusion ==
    /\ rPc = "open"
    /\ \E index \in 0..(MaxExclusions + 1) :
          scoping' = IF index < 1 \/ index > Len(scoping.exclusions) THEN scoping
                     ELSE [scoping EXCEPT !.exclusions = Popped(@, index)]
    /\ UNCHANGED <<rPc, phases, basic_questions, procedures>>
    /\ UNCHANGED <<dedupVars, scoreVars, searchVars, pipeVars, rateVars>>

\* int(c.id[1:]) of an id the tool has given
ConstraintNumber(id) == CHOOSE n \in 1..(MaxConstraints + 1) : id = "C" \o ToString(n)

\* next_constraint_id: "C" and the successor of the largest number in use
next_constraint_id(constraints) ==
    IF constraints = <<>> THEN "C1"
    ELSE "C" \o ToString(SetMax({ConstraintNumber(constraints[i].id) :
                                     i \in DOMAIN constraints}) + 1)

\* scope add-constraint
ScopeAddConstraint ==
    /\ rPc = "open"
    /\ Len(scoping.constraints) < MaxConstraints
    /\ scoping' = [scoping EXCEPT
                      !.constraints =
                          Append(@, [id |-> next_constraint_id(scoping.constraints),
                                     constraint |-> "needs replication rights"])]
    /\ UNCHANGED <<rPc, phases, basic_questions, procedures>>
    /\ UNCHANGED <<dedupVars, scoreVars, searchVars, pipeVars, rateVars>>

\* scope remove-constraint ID: an unknown id is an error
ScopeRemoveConstraint ==
    /\ rPc = "open"
    /\ \E constraint_id \in {"C1", "C9"} :
          scoping' = [scoping EXCEPT
                         !.constraints = SelectSeq(@, LAMBDA c : c.id # constraint_id)]
    /\ UNCHANGED <<rPc, phases, basic_questions, procedures>>
    /\ UNCHANGED <<dedupVars, scoreVars, searchVars, pipeVars, rateVars>>

\* ord(letter) - ord("A") + 1 of a letter the tool has given
LetterNumber(letter) == CHOOSE n \in DOMAIN UpperLetters : letter = UpperLetters[n]

\* next_procedure_letter: "A", or the letter after the last one in use
next_procedure_letter(procs) ==
    IF procs = <<>> THEN "A"
    ELSE IF SetMax({LetterNumber(procs[i].letter) : i \in DOMAIN procs}) = 26 THEN "AA"
    ELSE UpperLetters[SetMax({LetterNumber(procs[i].letter) : i \in DOMAIN procs}) + 1]

\* proc add NAME --summary --distinguishing
ProcAdd ==
    /\ rPc = "open"
    /\ Len(procedures) < MaxProcedures
    /\ \E summary \in {"", "DRSGetNCChanges"} :
          procedures' =
              Append(procedures,
                     [id |-> "TRR0028.AD." \o next_procedure_letter(procedures),
                      letter |-> next_procedure_letter(procedures),
                      name |-> "Replication request",
                      summary |-> summary,
                      distinguishing_operations |-> ""])
    /\ UNCHANGED <<rPc, phases, basic_questions, scoping>>
    /\ UNCHANGED <<dedupVars, scoreVars, searchVars, pipeVars, rateVars>>

\* proc edit PROC_ID --summary / --distinguishing: an unknown id is an error
ProcEdit ==
    /\ rPc = "open"
    /\ \E proc_id \in {"TRR0028.AD.A", "TRR0028.AD.Z"},
          field \in {"summary", "distinguishing_operations"},
          value \in {"", "DRSGetNCChanges"} :
          procedures' =
              IF \E i \in DOMAIN procedures : procedures[i].id = proc_id
              THEN [procedures EXCEPT
                       ![CHOOSE i \in DOMAIN procedures :
                            /\ procedures[i].id = proc_id
                            /\ \A j \in 1..(i - 1) : procedures[j].id # proc_id][field]
                          = value]
              ELSE procedures
    /\ UNCHANGED <<rPc, phases, basic_questions, scoping>>
    /\ UNCHANGED <<dedupVars, scoreVars, searchVars, pipeVars, rateVars>>

\* proc remove PROC_ID
ProcRemove ==
    /\ rPc = "open"
    /\ \E proc_id \in {"TRR0028.AD.A", "TRR0028.AD.Z"} :
          procedures' = SelectSeq(procedures, LAMBDA q : q.id # proc_id)
    /\ UNCHANGED <<rPc, phases, basic_questions, scoping>>
    /\ UNCHANGED <<dedupVars, scoreVars, searchVars, pipeVars, rateVars>>

\* import JSON_PATH [--replace]: import_scraper_json, then
\* _auto_advance_phases on the seeded state, then save_project
Import ==
    /\ rPc = "open"
    /\ \E technique_info \in TechniqueInfos, replace \in BOOLEAN :
          /\ basic_questions' = import_scraper_json(basic_questions, technique_info,
                                                    replace)
          /\ phases' = _auto_advance_phases(phases, basic_questions')
    /\ UNCHANGED <<rPc, scoping, procedures>>
    /\ UNCHANGED <<dedupVars, scoreVars, searchVars, pipeVars, rateVars>>

(***************************************************************************)
(* Claims about the phases of the research assistant (SpecResearch)        *)
(***************************************************************************)
\* C29: phase order: in every state reachable from create_project by
\* understand/scope/proc complete (with or without --force), field edits and
\* imports, a phase is complete only if every earlier phase of PHASE_ORDER
\* is complete.
C29_PhaseOrder ==
    rPc = "open" =>
        \A i, j \in DOMAIN PHASE_ORDER :
            (i < j /\ phases[PHASE_ORDER[j]] = "complete")
            => phases[PHASE_ORDER[i]] = "complete"

\* C30: completed phases stay completed: no command (a complete command of any
\* phase, forced or not, or an import with its _auto_advance_phases) changes
\* the status of a complete phase.
C30_CompleteStaysComplete ==
    [][rPc = "open"
          => \A i \in DOMAIN PHASE_ORDER :
                phases[PHASE_ORDER[i]] = "complete"
                => phases'[PHASE_ORDER[i]] = "complete"]_vars

(***************************************************************************)
(* The specifications                                                      *)
(***************************************************************************)
DedupNext ==
    \/ DedupPass1
    \/ DedupPass2
    \/ DedupPass3
    \/ DedupRebuild
    \/ DedupAgain

SpecDedup == DedupInit /\ [][DedupNext]_vars

ScoreNext ==
    \/ ScoreCandidate
    \/ BoostCandidate

SpecScore == ScoreInit /\ [][ScoreNext]_vars

SearchNext ==
    \/ Search
    \/ Tick

SpecSearch == SearchInit /\ [][SearchNext]_vars

RateNext ==
    \/ WaitCalled
    \/ WaitSlept
    \/ ClockTick

SpecRate == RateInit /\ [][RateNext]_vars

PipeNext ==
    \/ RunQuery
    \/ FinishCategory
    \/ ScoreAndFilter
    \/ Deduplicate

SpecPipeline == PipeInit /\ [][PipeNext]_vars

ResearchNext ==
    \/ UnderstandSet
    \/ UnderstandComplete
    \/ ScopeSetStatement
    \/ ScopeAddExclusion
    \/ ScopeRemoveExclusion
    \/ ScopeAddConstraint
    \/ ScopeRemoveConstraint
    \/ ScopeComplete
    \/ ProcAdd
    \/ ProcEdit
    \/ ProcRemove
    \/ ProcComplete
    \/ Import

SpecResearch == ResearchInit /\ [][ResearchNext]_vars

=============================================================================
